---------------------------- MODULE Spec2Model ----------------------------
(***************************************************************************)
(* A model of the NYS archives inmate-record pipeline:                     *)
(*   parse_raw_formatter.py  (fixed-width text -> raw-formatted CSV)       *)
(*   parse_decoded.py        (raw-formatted CSV -> decoded CSV)            *)
(*   build_histpun.py, build_inst_county.py, build_histpun_debug.py        *)
(*                           (decoded CSV -> yearly statistic rows)        *)
(*   run_all_parsers.py      (starts the scripts one after the other)      *)
(*                                                                         *)
(* Python values.  A Python str is a sequence of one-character strings, so *)
(* that slicing, stripping, len() and int() are computed as the code       *)
(* computes them.  A pandas missing value (NaN / NaT / <NA>: what read_csv *)
(* yields for an empty cell) is the value NaN, and a call that ends in an  *)
(* exception yields Raised.  Both are one-element sequences whose element  *)
(* is not a character, so they differ from every str.                      *)
(*                                                                         *)
(* The module holds one specification per component; the variables of the  *)
(* components a specification does not exercise stay at their idle value.  *)
(***************************************************************************)
EXTENDS Integers, Sequences, FiniteSets, TLC

VARIABLES
    \* ---- Sentence Decoder (parse_decoded.py, step 28)
    sCols,      \* the sentence columns present in the input file
    sRow,       \* the row's cells of those columns
    sLabel,     \* MinSentenceLabel / MaxSentenceLabel once decoded
    sPc,        \* "off" | "row" | "min" | "max"
    \* ---- Code Normalizer and Category Decoder (one cell of one column)
    cPresent,   \* whether the file has the column
    cCell,      \* the raw value of the cell (NaN when there is none)
    cMap,       \* the Category Mapping of the column: code -> label
    cClean,     \* the normalized value
    cLabel,     \* the decoded label
    cPc,        \* "off" | "cell" | "clean" | "label" | "absent" | "crime" | "marker"
    \* ---- Date Stub Parser (one date field of one record)
    dRaw,       \* the raw field value
    dFmt,       \* the layout: "MDDYY" (day-level) or "MYY" (month-level)
    dStub,      \* the stub parse_iso_date returned
    dPc,        \* "off" | "raw" | "formatter" | "decoder"
    \* ---- Century Resolver (one call of one entry point)
    pStub,      \* the stub argument
    pRef,       \* the reference date argument (pivot_dob only)
    pOut,       \* the value returned, or Raised
    pPc,        \* "off" | "args" | the entry point that was called
    \* ---- Aggregator (build_histpun*.py, build_inst_county.py)
    aDecoded,   \* the records of the decoded CSVs, concatenated (df_all)
    aRows,      \* the statistic rows written (histpun_rows)
    aPc,        \* "off" | "decoded" | the script that ran
    \* ---- One record through parse_raw_formatter.py and parse_decoded.py
    rLine,      \* a line of the fixed-width text file
    rRaw,       \* the Raw Record: the 40 fields of the line
    rWritten,   \* the row of the raw-formatted CSV
    rDecoded,   \* the date columns of the row of the decoded CSV
    rPc,        \* "off" | "line" | "raw" | "skipped" | "written" | "failed" | "decoded" | "aborted"
    \* ---- One run of parse_decoded.py
    uFiles,     \* the state of each mapping file: "ok" | "missing" | "malformed"
    uInputs,    \* the raw-formatted CSVs, in the order glob returns them
    uFolder,    \* whether the run has created the output folder
    uOutputs,   \* the decoded CSVs written
    uPc,        \* "off" | "start" | "loaded" | "loop" | "exit(0)" | "exit(1)"
    \* ---- One run of run_all_parsers.py
    oScripts,   \* the scripts the working directory holds
    oTxt,       \* the number of input text files
    oMappings,  \* the mapping files: "ok" | "missing" | "malformed"
    oRaw,       \* the number of files in csv_raw_formatted
    oDecoded,   \* the number of files in csv_decoded
    oRan,       \* the scripts started so far, each with its exit status
    oOut,       \* the lines main() printed
    oPc         \* "off" | "main" | "exit(0)" | "exit(1)"

sentenceVars == <<sCols, sRow, sLabel, sPc>>
codeVars == <<cPresent, cCell, cMap, cClean, cLabel, cPc>>
stubVars == <<dRaw, dFmt, dStub, dPc>>
pivotVars == <<pStub, pRef, pOut, pPc>>
aggregateVars == <<aDecoded, aRows, aPc>>
recordVars == <<rLine, rRaw, rWritten, rDecoded, rPc>>
runVars == <<uFiles, uInputs, uFolder, uOutputs, uPc>>
orchVars == <<oScripts, oTxt, oMappings, oRaw, oDecoded, oRan, oOut, oPc>>

vars == <<sentenceVars, codeVars, stubVars, pivotVars, aggregateVars, recordVars, runVars,
          orchVars>>

nonSentenceVars == <<codeVars, stubVars, pivotVars, aggregateVars, recordVars, runVars, orchVars>>
nonCodeVars == <<sentenceVars, stubVars, pivotVars, aggregateVars, recordVars, runVars, orchVars>>
nonStubVars == <<sentenceVars, codeVars, pivotVars, aggregateVars, recordVars, runVars, orchVars>>
nonPivotVars == <<sentenceVars, codeVars, stubVars, aggregateVars, recordVars, runVars, orchVars>>
nonAggregateVars == <<sentenceVars, codeVars, stubVars, pivotVars, recordVars, runVars, orchVars>>
nonRecordVars == <<sentenceVars, codeVars, stubVars, pivotVars, aggregateVars, runVars, orchVars>>
nonRunVars == <<sentenceVars, codeVars, stubVars, pivotVars, aggregateVars, recordVars, orchVars>>
nonOrchVars == <<sentenceVars, codeVars, stubVars, pivotVars, aggregateVars, recordVars, runVars>>

---------------------------------------------------------------------------
(* Python values                                                           *)

NaN    == <<"<NaN>">>
Raised == <<"<raised>">>

IsStr(x) == x # NaN /\ x # Raised

\* pd.isna / pd.notna on a cell
IsNa(x) == x = NaN

\* the texts the scripts write into their output
Text ==
    [DeathIndeterminate |->
        <<"D", "e", "a", "t", "h", "/", "I", "n", "d", "e", "t", "e", "r", "m", "i", "n", "a", "t", "e">>,
     HundredPlusYears |-> <<"1", "0", "0", "+", " ", "y", "e", "a", "r", "s">>,
     TransferIndeterminate |->
        <<"T", "r", "a", "n", "s", "f", "e", "r", "/", "I", "n", "d", "e", "t", "e", "r", "m", "i", "n", "a", "t", "e">>,
     ZeroMonths |-> <<"0", " ", "m", "o", "n", "t", "h", "s">>,
     Unknown |-> <<"U", "n", "k", "n", "o", "w", "n">>,
     UnitedStates |->
        <<"U", "n", "i", "t", "e", "d", " ", "S", "t", "a", "t", "e", "s">>,
     Prisoners |-> <<"p", "r", "i", "s", "o", "n", "e", "r", "s">>,
     NewYork |-> <<"N", "e", "w", " ", "Y", "o", "r", "k">>,
     RaceGenderTag |->
        <<"r", "a", "c", "e", ",", "g", "e", "n", "d", "e", "r">>,
     RaceTag |-> <<"r", "a", "c", "e">>,
     GenderTag |-> <<"g", "e", "n", "d", "e", "r">>,
     ReligionTag |-> <<"r", "e", "l", "i", "g", "i", "o", "n">>,
     AgeTag |-> <<"a", "g", "e">>,
     Juvenile |-> <<"j", "u", "v", "e", "n", "i", "l", "e">>,
     Adult |-> <<"a", "d", "u", "l", "t">>]

DigitChars == {"0", "1", "2", "3", "4", "5", "6", "7", "8", "9"}

DigitVal(c) ==
    CASE c = "0" -> 0 [] c = "1" -> 1 [] c = "2" -> 2 [] c = "3" -> 3
      [] c = "4" -> 4 [] c = "5" -> 5 [] c = "6" -> 6 [] c = "7" -> 7
      [] c = "8" -> 8 [] c = "9" -> 9

DigitChar(d) == <<"0", "1", "2", "3", "4", "5", "6", "7", "8", "9">>[d + 1]

\* s[a:b] with 0-based a, b as in Python (clamped to the string)
Slice(s, a, b) ==
    LET hi == IF b > Len(s) THEN Len(s) ELSE b
    IN  IF a >= hi THEN <<>> ELSE SubSeq(s, a + 1, hi)

\* s.strip(chars)
RECURSIVE StripChars(_, _)
StripChars(s, chars) ==
    IF s # <<>> /\ Head(s) \in chars THEN StripChars(Tail(s), chars)
    ELSE IF s # <<>> /\ s[Len(s)] \in chars
    THEN StripChars(SubSeq(s, 1, Len(s) - 1), chars)
    ELSE s

\* str.strip()
\* str.isspace() of one character (space, tab, form feed, NBSP, ...)
Strip(s) == StripChars(s, {" ", "\t", "\f"})

\* s.startswith(p)
StartsWith(s, p) == Len(s) >= Len(p) /\ SubSeq(s, 1, Len(p)) = p

AllDigits(s) == \A i \in 1..Len(s) : s[i] \in DigitChars

RECURSIVE DigitsValue(_)
DigitsValue(s) ==
    IF s = <<>> THEN 0
    ELSE 10 * DigitsValue(SubSeq(s, 1, Len(s) - 1)) + DigitVal(s[Len(s)])

\* int(s): surrounding whitespace is ignored, one sign is allowed, the rest
\* must be a non-empty run of digits; anything else raises ValueError.
IntOk(s) ==
    LET t == Strip(s)
        u == IF t # <<>> /\ Head(t) \in {"+", "-"} THEN Tail(t) ELSE t
    IN  u # <<>> /\ AllDigits(u)

IntVal(s) ==
    LET t == Strip(s)
    IN  IF t # <<>> /\ Head(t) = "-" THEN 0 - DigitsValue(Tail(t))
        ELSE IF t # <<>> /\ Head(t) = "+" THEN DigitsValue(Tail(t))
        ELSE DigitsValue(t)

RECURSIVE NatStr(_)
NatStr(n) ==
    IF n < 10 THEN <<DigitChar(n)>>
    ELSE NatStr(n \div 10) \o <<DigitChar(n % 10)>>

\* str(n) / f"{n}"
IntStr(n) == IF n < 0 THEN <<"-">> \o NatStr(0 - n) ELSE NatStr(n)

\* all strings over alphabet A of length 0..n
RECURSIVE StringsUpTo(_, _)
StringsUpTo(A, n) ==
    IF n = 0 THEN {<<>>}
    ELSE LET shorter == StringsUpTo(A, n - 1)
         IN  shorter \cup {Append(s, c) : s \in shorter, c \in A}

---------------------------------------------------------------------------
(* Sentence Decoder: parse_decoded.py, decode_sentence_years_months        *)

\* f"{yy} yr{'s' if yy != 1 else ''}"
YearsPart(yy) == IntStr(yy) \o <<" ","y","r">> \o (IF yy # 1 THEN <<"s">> ELSE <<>>)
\* mutant: the months part is always plural
MonthsPart_plural(mm) == IntStr(mm) \o <<" ","m","o","s">>

\* f"{mm} mo{'s' if mm != 1 else ''}"
MonthsPart(mm) == IntStr(mm) \o <<" ","m","o">> \o (IF mm # 1 THEN <<"s">> ELSE <<>>)

\* the numeric part of decode_sentence_years_months, after the sentinel checks
\* (int(y) failing gives ""; months "T" is 10, "E" is 11, unparseable is 0)
SentenceNumeric(y, m) ==
    IF ~IntOk(y) THEN <<>>
    ELSE LET yy == IntVal(y)
             mm == IF m = <<"T">> THEN 10
                   ELSE IF m = <<"E">> THEN 11
                   ELSE IF IntOk(m) THEN IntVal(m) ELSE 0
             yp == IF yy > 0 THEN <<YearsPart(yy)>> ELSE <<>>
             mp == IF mm > 0 THEN <<MonthsPart(mm)>> ELSE <<>>
             parts == yp \o mp
         IN  IF parts = <<>> THEN Text.ZeroMonths
             ELSE IF Len(parts) = 1 THEN parts[1]
             ELSE parts[1] \o <<",", " ">> \o parts[2]

\* mutant: the y == "999" check is missing
decode_sentence_no_max_check(y, m) ==
    IF ~IsStr(y) \/ ~IsStr(m) THEN <<>>
    ELSE IF m = <<"&","&","&">> THEN Text.DeathIndeterminate
    ELSE IF StartsWith(y, <<"9","2">>) \/ StartsWith(y, <<"9","5">>)
         THEN Text.TransferIndeterminate
    ELSE SentenceNumeric(y, m)

decode_sentence_years_months(y, m) ==
    IF ~IsStr(y) \/ ~IsStr(m) THEN <<>>
    ELSE IF m = <<"&","&","&">> THEN Text.DeathIndeterminate
    ELSE IF y = <<"9","9","9">> THEN Text.HundredPlusYears
    ELSE IF StartsWith(y, <<"9","2">>) \/ StartsWith(y, <<"9","5">>)
         THEN Text.TransferIndeterminate
    ELSE SentenceNumeric(y, m)

\* The sentence columns of one family ("Min" or "Max") a raw-formatted file
\* may carry: <prefix>Sentence, <prefix>SentenceYears, <prefix>SentenceMonths.
SentenceColumns == {"Sentence", "SentenceYears", "SentenceMonths"}

\* get_min_sen_label / get_max_sen_label (the two differ in the prefix only)
get_sen_label(cols, row) ==
    IF "SentenceYears" \in cols /\ "SentenceMonths" \in cols
    THEN decode_sentence_years_months(row["SentenceYears"], row["SentenceMonths"])
    ELSE IF "Sentence" \in cols
    THEN decode_sentence_years_months(row["Sentence"], <<>>)
    ELSE <<>>

\* df["MinSentenceLabel"] = df.apply(get_min_sen_label, axis=1) or ""
SentenceLabel(cols, row) ==
    IF "Sentence" \in cols \/ "SentenceYears" \in cols
    THEN get_sen_label(cols, row)
    ELSE <<>>

MaxSentenceLen == 3
\* read_csv turns an empty cell into NaN, never into ""
SentenceCells ==
    (StringsUpTo({"9", "2", "5", "1", "0", "x"}, MaxSentenceLen) \ {<<>>}) \cup {NaN}
MonthCells ==
    {NaN, <<"&","&","&">>, <<"&">>, <<"T">>, <<"E">>, <<"0">>, <<"1">>,
     <<"6">>, <<"1","2">>, <<"x">>}

\* the cells read_csv(dtype=str) can deliver for a column, given the file's
\* columns (the whole-code column is sampled thinly when the years column,
\* which takes precedence over it, is there too)
CellDomain(col, cols) ==
    IF col = "SentenceMonths" THEN MonthCells
    ELSE IF col = "Sentence" /\ "SentenceYears" \in cols
         THEN {NaN, <<"9","9","9">>, <<"2">>}
    ELSE SentenceCells

SentenceIdle ==
    /\ sCols = {}
    /\ sRow = <<>>
    /\ sLabel = <<>>
    /\ sPc = "off"

DecodeMinSentence ==
    /\ sPc = "row"
    /\ sLabel' = SentenceLabel(sCols, sRow)
    /\ sPc' = "min"
    /\ UNCHANGED <<sCols, sRow>>
    /\ UNCHANGED nonSentenceVars

DecodeMaxSentence ==
    /\ sPc = "row"
    /\ sLabel' = SentenceLabel(sCols, sRow)
    /\ sPc' = "max"
    /\ UNCHANGED <<sCols, sRow>>
    /\ UNCHANGED nonSentenceVars

---------------------------------------------------------------------------
(* Code Normalizer and Category Decoder                                    *)

Sentinels == {<<"&">>, <<"9">>, <<>>}

\* mutant: "9" is not replaced
clean_unknown_keeps_nine(x) ==
    IF x \in {<<"&">>, <<>>} THEN NaN ELSE x

\* parse_decoded.py clean_unknown, on one element of the series:
\* series.replace({"&": nan, "9": nan, "": nan}) replaces exact matches
clean_unknown(x) ==
    IF x \in Sentinels THEN NaN ELSE x

\* parse_raw_formatter.py clean_marker
clean_marker(x) ==
    IF IsNa(x) THEN <<>>
    ELSE LET s == Strip(x)
         IN  IF s \in Sentinels THEN <<>> ELSE s

\* Series.map(mapping), on one element: a value that is no key (NaN
\* included) maps to NaN
MapCode(x, mapping) ==
    IF x \in DOMAIN mapping THEN mapping[x] ELSE NaN

\* mutant: the .fillna("Unknown") is missing
FillUnknown_missing(x) == x

\* .fillna("Unknown"), on one element
FillUnknown(x) == IF IsNa(x) THEN Text.Unknown ELSE x

\* clean_unknown(df[col]).map(mapping).fillna("Unknown"), on one element
DecodeCode(x, mapping) == FillUnknown(MapCode(clean_unknown(x), mapping))

\* deg_map of decode_crime_pair; NaN stands for deg_map.get(d) being None
DegreeLabel(d) ==
    CASE d = <<"0">> -> <<"3","r","d">>
      [] d = <<"1">> -> <<"2","n","d">>
      [] d = <<"2">> -> <<"1","s","t">>
      [] d = <<"3">> -> <<"1","s","t">>
      [] OTHER -> NaN

\* decode_crime_pair(c, d) with crime_map = mapping
decode_crime_pair(c, d, mapping) ==
    IF c = <<>> \/ d = <<>>
       \/ (\E i \in 1..Len(c) : c[i] = "&") \/ (\E i \in 1..Len(d) : d[i] = "&")
    THEN Text.Unknown
    ELSE IF c \notin DOMAIN mapping THEN Text.Unknown
    ELSE IF IsNa(DegreeLabel(d)) THEN mapping[c]
    ELSE mapping[c] \o <<",", " ", "d","e","g","r","e","e", " ">> \o DegreeLabel(d)

\* step 3 on one element: raw_crime = fillna(""), code = [0:2], degree = [2:3]
DecodeCrime(x, mapping) ==
    LET raw_crime == IF IsNa(x) THEN <<>> ELSE x
    IN  decode_crime_pair(Slice(raw_crime, 0, 2), Slice(raw_crime, 2, 3), mapping)

\* mutant: the column of an absent source is filled like a missing value
absent_column_unknown == Text.Unknown

\* else: df[col] = ""
absent_column == <<>>

MaxCodeLen == 3
\* the Category Mappings: every choice of keys among five codes, the label
\* of code k being "Label k", and a mapping that gives two codes one label
\* (as nat_map gives "Not stated" to "-" and to "9")
Mappings ==
    {[k \in K |-> <<"L","a","b","e","l"," ">> \o k] :
        K \in SUBSET {<<"1">>, <<"9">>, <<"&">>, <<"1","2">>, <<"1","&">>}}
    \cup {[k \in {<<"1">>, <<"9">>} |-> <<"L","a","b","e","l"," ","9">>]}

CodeIdle ==
    /\ cPresent = FALSE
    /\ cCell = NaN
    /\ cMap = <<>>
    /\ cClean = NaN
    /\ cLabel = NaN
    /\ cPc = "off"

\* clean_unknown(df[col])
NormalizeCode ==
    /\ cPc = "cell" /\ cPresent
    /\ cClean' = clean_unknown(cCell)
    /\ cPc' = "clean"
    /\ UNCHANGED <<cPresent, cCell, cMap, cLabel>>
    /\ UNCHANGED nonCodeVars

\* .map(mapping).fillna("Unknown")
LookupLabel ==
    /\ cPc = "clean"
    /\ cLabel' = FillUnknown(MapCode(cClean, cMap))
    /\ cPc' = "label"
    /\ UNCHANGED <<cPresent, cCell, cMap, cClean>>
    /\ UNCHANGED nonCodeVars

\* else: df[col] = ""
DecodeAbsentColumn ==
    /\ cPc = "cell" /\ ~cPresent
    /\ cLabel' = absent_column
    /\ cPc' = "absent"
    /\ UNCHANGED <<cPresent, cCell, cMap, cClean>>
    /\ UNCHANGED nonCodeVars

\* step 3: CrimeDetails -> Crime
DecodeCrimeDetails ==
    /\ cPc = "cell" /\ cPresent
    /\ cLabel' = DecodeCrime(cCell, cMap)
    /\ cPc' = "crime"
    /\ UNCHANGED <<cPresent, cCell, cMap, cClean>>
    /\ UNCHANGED nonCodeVars

\* parse_raw_formatter.py: clean_marker(x) on a date field
CleanMarker ==
    /\ cPc = "cell" /\ cPresent
    /\ cClean' = clean_marker(cCell)
    /\ cPc' = "marker"
    /\ UNCHANGED <<cPresent, cCell, cMap, cLabel>>
    /\ UNCHANGED nonCodeVars

---------------------------------------------------------------------------
(* Date Stub Parser: parse_iso_date (the same text in parse_raw_formatter.py *)
(* and in parse_decoded.py)                                                *)

\* re.sub(r"\D", "", raw)
RECURSIVE DigitsOnly(_)
DigitsOnly(s) ==
    IF s = <<>> THEN <<>>
    ELSE IF Head(s) \in DigitChars THEN <<Head(s)>> \o DigitsOnly(Tail(s))
    ELSE DigitsOnly(Tail(s))

\* mutant: the ":02d" is missing from the format
Pad2_unpadded(n) == NatStr(n)

\* f"{n:02d}" for n >= 0
Pad2(n) == IF n < 10 THEN <<"0">> \o NatStr(n) ELSE NatStr(n)

\* f"{n:04d}" for n >= 0
Pad4(n) ==
    IF n < 10 THEN <<"0", "0", "0">> \o NatStr(n)
    ELSE IF n < 100 THEN <<"0", "0">> \o NatStr(n)
    ELSE IF n < 1000 THEN <<"0">> \o NatStr(n)
    ELSE NatStr(n)

parse_iso_date(raw, fmt) ==
    IF ~IsStr(raw) THEN <<>>
    ELSE LET s == DigitsOnly(raw)
         IN  IF fmt = "MDDYY"
             THEN IF Len(s) = 5
                  THEN Pad2(DigitsValue(Slice(s, 3, 5))) \o <<"-">>
                       \o Pad2(DigitsValue(Slice(s, 0, 1))) \o <<"-">>
                       \o Pad2(DigitsValue(Slice(s, 1, 3)))
                  ELSE IF Len(s) = 6
                  THEN Pad2(DigitsValue(Slice(s, 4, 6))) \o <<"-">>
                       \o Pad2(DigitsValue(Slice(s, 0, 2))) \o <<"-">>
                       \o Pad2(DigitsValue(Slice(s, 2, 4)))
                  ELSE <<>>
             ELSE IF fmt = "MYY"
             THEN IF Len(s) = 3
                  THEN Pad2(DigitsValue(Slice(s, 1, 3))) \o <<"-">>
                       \o Pad2(DigitsValue(Slice(s, 0, 1)))
                  ELSE IF Len(s) = 4
                  THEN Pad2(DigitsValue(Slice(s, 2, 4))) \o <<"-">>
                       \o Pad2(DigitsValue(Slice(s, 0, 2)))
                  ELSE <<>>
             ELSE <<>>

MaxDateLen == 7
StubIdle ==
    /\ dRaw = NaN
    /\ dFmt = "MDDYY"
    /\ dStub = <<>>
    /\ dPc = "off"

\* parse_raw_formatter.py: parse_iso_date(clean_marker(x), fmt)
FormatterParse ==
    /\ dPc = "raw"
    /\ dStub' = parse_iso_date(clean_marker(dRaw), dFmt)
    /\ dPc' = "formatter"
    /\ UNCHANGED <<dRaw, dFmt>>
    /\ UNCHANGED nonStubVars

\* parse_decoded.py: parse_iso_date(x, fmt)
DecoderParse ==
    /\ dPc = "raw"
    /\ dStub' = parse_iso_date(dRaw, dFmt)
    /\ dPc' = "decoder"
    /\ UNCHANGED <<dRaw, dFmt>>
    /\ UNCHANGED nonStubVars

---------------------------------------------------------------------------
(* Century Resolver: pivot_date_received, pivot_dob, pivot_month_year, as  *)
(* parse_raw_formatter.py has them (_formatter) and as parse_decoded.py    *)
(* has them (_decoded)                                                     *)

\* s.split("-")
RECURSIVE SplitDash(_)
SplitDash(s) ==
    IF \A i \in 1..Len(s) : s[i] # "-" THEN <<s>>
    ELSE LET k == CHOOSE i \in 1..Len(s) :
                      s[i] = "-" /\ \A j \in 1..(i - 1) : s[j] # "-"
         IN  <<SubSeq(s, 1, k - 1)>> \o SplitDash(SubSeq(s, k + 1, Len(s)))

\* "yy, mm, dd = ysm.split('-')" followed by int(yy) raises unless there are
\* exactly n parts and the first is an integer
SplitsInto(s, n) == Len(SplitDash(s)) = n /\ IntOk(SplitDash(s)[1])

\* f"{1900 + int(yy):04d}-{mm}-{dd}"
FixedCentury(parts) ==
    LET year == Pad4(1900 + IntVal(parts[1]))
    IN  IF Len(parts) = 3 THEN year \o <<"-">> \o parts[2] \o <<"-">> \o parts[3]
        ELSE year \o <<"-">> \o parts[2]

\* mutant: the comparison is >= instead of >
RelativeCenturyYear_ge(yy_i, recv_yy) ==
    IF yy_i >= recv_yy THEN 1800 + yy_i ELSE 1900 + yy_i

\* mutant: the year is always put in the 1900s
RelativeCenturyYear_fixed(yy_i, recv_yy) == 1900 + yy_i

\* if yy_i > recv_yy: 1800 + yy_i else: 1900 + yy_i
RelativeCenturyYear(yy_i, recv_yy) ==
    IF yy_i > recv_yy THEN 1800 + yy_i ELSE 1900 + yy_i

\* the tail of both pivot_dob: recv_yy = int(recv[:4]) % 100, then the rule
RelativeCentury(parts, recv) ==
    IF ~IntOk(Slice(recv, 0, 4)) THEN Raised
    ELSE Pad4(RelativeCenturyYear(IntVal(parts[1]), IntVal(Slice(recv, 0, 4)) % 100))
         \o <<"-">> \o parts[2] \o <<"-">> \o parts[3]

pivot_date_received_formatter(ysm) ==
    IF ~IsStr(ysm) \/ Len(ysm) # 8 THEN <<>>
    ELSE IF ~SplitsInto(ysm, 3) THEN Raised
    ELSE FixedCentury(SplitDash(ysm))

pivot_dob_formatter(ysm, recv_full) ==
    IF ~(IsStr(ysm) /\ Len(ysm) = 8 /\ IsStr(recv_full) /\ Len(recv_full) >= 4)
    THEN <<>>
    ELSE IF ~SplitsInto(ysm, 3) THEN Raised
    ELSE RelativeCentury(SplitDash(ysm), recv_full)

pivot_month_year_formatter(ym) ==
    IF ~IsStr(ym) \/ Len(ym) # 5 THEN <<>>
    ELSE IF ~SplitsInto(ym, 2) THEN Raised
    ELSE FixedCentury(SplitDash(ym))

\* "if not ysm or len(ysm) != 8": NaN is truthy, so len(NaN) raises TypeError
pivot_date_received_decoded(ysm) ==
    IF ysm = <<>> THEN <<>>
    ELSE IF ~IsStr(ysm) THEN Raised
    ELSE IF Len(ysm) # 8 THEN <<>>
    ELSE IF ~SplitsInto(ysm, 3) THEN Raised
    ELSE FixedCentury(SplitDash(ysm))

\* "if not recv or len(recv) < 4" comes after the stub was split: NaN is
\* truthy, so len(NaN) raises TypeError
pivot_dob_decoded(ysm, recv) ==
    IF ~IsStr(ysm) \/ Len(ysm) # 8 THEN <<>>
    ELSE IF ~SplitsInto(ysm, 3) THEN Raised
    ELSE IF recv = <<>> THEN <<>>
    ELSE IF ~IsStr(recv) THEN Raised
    ELSE IF Len(recv) < 4 THEN <<>>
    ELSE RelativeCentury(SplitDash(ysm), recv)

pivot_month_year_decoded(ym) ==
    IF ym = <<>> THEN <<>>
    ELSE IF ~IsStr(ym) THEN Raised
    ELSE IF Len(ym) # 5 THEN <<>>
    ELSE IF ~SplitsInto(ym, 2) THEN Raised
    ELSE FixedCentury(SplitDash(ym))

\* the two-digit years 00..99, and the stubs and reference dates built on them
TwoDigitYears == {Pad2(n) : n \in 0..99}
PivotIdle ==
    /\ pStub = <<>>
    /\ pRef = <<>>
    /\ pOut = <<>>
    /\ pPc = "off"

Call(entry, result) ==
    /\ pPc = "args"
    /\ pOut' = result
    /\ pPc' = entry
    /\ UNCHANGED <<pStub, pRef>>
    /\ UNCHANGED nonPivotVars

---------------------------------------------------------------------------
(* One record through the two parsing stages: parse_raw_formatter.py reads *)
(* a line of a fixed-width file into the 40 raw fields, resolves the date  *)
(* fields and writes the raw-formatted CSV; parse_decoded.py reads that    *)
(* CSV back and decodes the date columns again.                            *)

\* zero-based (start, end) of each field, in file order
colspecs ==
    <<
    <<0, 2>>, <<2, 8>>, <<8, 13>>, <<13, 14>>, <<14, 15>>, <<15, 20>>,
    <<20, 24>>, <<24, 27>>, <<27, 30>>, <<30, 32>>, <<32, 33>>, <<33, 34>>,
    <<34, 36>>, <<36, 37>>, <<37, 38>>, <<38, 44>>, <<44, 45>>, <<45, 47>>,
    <<47, 48>>, <<48, 49>>, <<49, 50>>, <<50, 51>>, <<51, 52>>, <<52, 54>>,
    <<54, 55>>, <<55, 56>>, <<56, 57>>, <<57, 58>>, <<58, 59>>, <<59, 61>>,
    <<61, 63>>, <<63, 64>>, <<64, 66>>, <<66, 68>>, <<68, 70>>, <<70, 71>>,
    <<71, 72>>, <<72, 75>>, <<75, 78>>, <<78, 80>>
    >>

colnames ==
    <<
    "ReceivingInstitutionCode", "InmateNumber", "DateReceived",
    "CrimeCategory", "SentenceType", "DateOfBirth", "CrimeDetails",
    "MinSentence", "MaxSentence", "CountyCommittedFrom",
    "CourtCommittedBy", "Race", "AgeAtCommitment", "Religion", "Sex",
    "IdentifierNumber", "CheckDigit", "YearsResidenceNY",
    "MilitaryService", "Education", "Occupation", "NarcoticsUse",
    "MaritalStatus", "PrevCriminalRecord", "CommitmentsProbation",
    "FinesSuspensions", "TimeSpanEarliestAdultRecord",
    "MinorPoliceContacts", "SeriousPoliceContacts", "CountryOfBirth",
    "YearEnteredUS", "NaturalizationStatus", "PsychiatricClassification",
    "InstitutionOriginal", "OriginalMonthYear", "MentalHygieneID",
    "ReturnType", "LatestReleaseDate", "LatestReturnDate",
    "CurrentInstitution"
    >>

\* the position of a field in colspecs / colnames
ColumnOf(name) == CHOOSE i \in 1..Len(colnames) : colnames[i] = name

\* the texts pandas reads as a missing value (STR_NA_VALUES)
NaValues ==
    {
    <<>>, <<"n", "a", "n">>, <<"N", "a", "N">>, <<"N", "A">>,
    <<"N", "/", "A">>, <<"n", "/", "a">>, <<"N", "U", "L", "L">>,
    <<"n", "u", "l", "l">>, <<"N", "o", "n", "e">>, <<"<", "N", "A", ">">>,
    <<"#", "N", "/", "A">>, <<"#", "N", "A">>, <<"-", "n", "a", "n">>,
    <<"-", "N", "a", "N">>
    }

\* mutant: every field starts one character early
FieldText_one_early(line, i) ==
    StripChars(Slice(line, IF colspecs[i][1] = 0 THEN 0 ELSE colspecs[i][1] - 1,
                     colspecs[i][2]), {" ", "\t", "\n", "\r"})

\* the text read_fwf cuts out of a line for one field: line[start:end]
\* without the surrounding delimiter characters
FieldText(line, i) ==
    StripChars(Slice(line, colspecs[i][1], colspecs[i][2]), {" ", "\t", "\n", "\r"})

\* read_fwf drops a line all of whose fields are blank (skip_blank_lines)
BlankLine(line) == \A i \in 1..Len(colspecs) : Strip(FieldText(line, i)) = <<>>

\* one cell as read_csv / read_fwf return it with dtype=str
read_cell(text) == IF text \in NaValues THEN NaN ELSE text

\* .astype(str)
astype_str(x) == IF IsNa(x) THEN <<"n", "a", "n">> ELSE x

\* pd.read_fwf(...) of one line, then astype(str) on every column
read_fwf(line) ==
    [name \in {colnames[i] : i \in 1..Len(colnames)} |->
        astype_str(read_cell(FieldText(line, ColumnOf(name))))]

\* steps c) to h) of the formatter on one row: the cells of the row as
\* to_csv writes them
format_dates(row) ==
    LET received == pivot_date_received_formatter(
                        parse_iso_date(clean_marker(row["DateReceived"]), "MDDYY"))
        born == IF received = Raised THEN Raised
                ELSE pivot_dob_formatter(
                        parse_iso_date(clean_marker(row["DateOfBirth"]), "MDDYY"),
                        received)
        release == pivot_month_year_formatter(
                        parse_iso_date(clean_marker(row["LatestReleaseDate"]), "MYY"))
        return == pivot_date_received_formatter(
                        parse_iso_date(clean_marker(row["LatestReturnDate"]), "MDDYY"))
    IN  [row EXCEPT !["DateReceived"] = received,
                    !["DateOfBirth"] = born,
                    !["LatestReleaseDate"] = release,
                    !["LatestReturnDate"] = return]

\* the date columns of one row of the decoded CSV: read_csv(dtype=str) of
\* the raw-formatted row, then steps 4 and 23 of the decoder
decode_dates(written) ==
    LET cell(name) == read_cell(written[name])
        born == pivot_dob_decoded(parse_iso_date(cell("DateOfBirth"), "MDDYY"),
                                  cell("DateReceived"))
        release == pivot_month_year_decoded(
                        parse_iso_date(cell("LatestReleaseDate"), "MYY"))
        return == pivot_date_received_decoded(
                        parse_iso_date(cell("LatestReturnDate"), "MDDYY"))
        original == pivot_month_year_decoded(
                        parse_iso_date(cell("OriginalMonthYear"), "MYY"))
    IN  [DateReceived |-> cell("DateReceived"), DateOfBirth |-> born,
         LatestReleaseDate |-> release, LatestReturnDate |-> return,
         OriginalMonthYear |-> original]

\* an exception left one of the calls that computed the row
Raises(row) == \E name \in DOMAIN row : row[name] = Raised

\* a line of 80 characters with a digit in every position
FullLine ==
    <<"0", "1", "1", "2", "3", "4", "5", "6", "6", "1", "2", "5", "2", "1",
    "2", "5", "1", "2", "3", "0", "1", "2", "0", "1", "0", "0", "5", "0",
    "1", "0", "1", "4", "1", "1", "2", "1", "1", "1", "6", "5", "4", "3",
    "2", "1", "7", "2", "1", "1", "2", "3", "1", "2", "0", "1", "1", "1",
    "1", "1", "1", "0", "1", "0", "0", "1", "0", "1", "0", "2", "5", "2",
    "1", "1", "6", "5", "3", "6", "5", "4", "0", "3">>

\* the line with the characters of one field replaced
Fill(line, name, text) ==
    LET lo == colspecs[ColumnOf(name)][1]
        hi == colspecs[ColumnOf(name)][2]
    IN  [i \in 1..Len(line) |-> IF lo < i /\ i <= hi THEN text[i - lo] ELSE line[i]]

\* lines that differ in their date fields, every prefix of a line (a line
\* shorter than 80 characters, down to the empty line), a longer line and
\* a line of blanks
Lines ==
    {Fill(Fill(Fill(Fill(FullLine, "DateReceived", received), "DateOfBirth", born),
               "LatestReleaseDate", release), "LatestReturnDate", return) :
        received \in {<<"6", "1", "2", "5", "2">>, <<"1", "0", "5", "5", "3">>,
                      <<"6", "1", "2", "0", "0">>, <<"6", "1", "2", "9", "9">>,
                      <<" ", " ", " ", " ", " ">>, <<"&", "&", "&", "&", "&">>},
        born \in {<<"5", "1", "2", "3", "0">>, <<"6", "1", "2", "6", "0">>,
                  <<"6", "1", "2", "5", "2">>, <<"6", "1", "2", "0", "0">>,
                  <<"6", "1", "2", "9", "9">>,
                  <<" ", " ", " ", " ", " ">>, <<"5", "1", "2", "3", "&">>},
        release \in {<<"6", "5", "3">>, <<" ", " ", " ">>, <<"&", "5", "3">>},
        return \in {<<"6", "5", "4">>, <<" ", " ", " ">>}}
    \cup {Slice(FullLine, 0, n) : n \in 0..Len(FullLine)}
    \cup {FullLine \o <<"0", "1">>, [i \in 1..Len(FullLine) |-> " "]}

RecordIdle ==
    /\ rLine = <<>>
    /\ rRaw = NaN
    /\ rWritten = NaN
    /\ rDecoded = NaN
    /\ rPc = "off"

\* parse_raw_formatter.py a), b): the Raw Record of the line.  Whether a
\* blank line yields a row of missing values or no row depends on the
\* pandas release in use.
ExtractFields ==
    /\ rPc = "line"
    /\ \/ rRaw' = read_fwf(rLine) /\ rPc' = "raw"
       \/ BlankLine(rLine) /\ rRaw' = NaN /\ rPc' = "skipped"
    /\ UNCHANGED <<rLine, rWritten, rDecoded>>
    /\ UNCHANGED nonRecordVars

\* parse_raw_formatter.py c) to h); an exception ends the file's try block
\* and nothing is written
FormatRecord ==
    /\ rPc = "raw"
    /\ rWritten' = IF Raises(format_dates(rRaw)) THEN NaN ELSE format_dates(rRaw)
    /\ rPc' = IF Raises(format_dates(rRaw)) THEN "failed" ELSE "written"
    /\ UNCHANGED <<rLine, rRaw, rDecoded>>
    /\ UNCHANGED nonRecordVars

\* parse_decoded.py on the row of the raw-formatted CSV; an exception ends
\* the run and nothing is written
DecodeRecord ==
    /\ rPc = "written"
    /\ rDecoded' = IF Raises(decode_dates(rWritten)) THEN NaN ELSE decode_dates(rWritten)
    /\ rPc' = IF Raises(decode_dates(rWritten)) THEN "aborted" ELSE "decoded"
    /\ UNCHANGED <<rLine, rRaw, rWritten>>
    /\ UNCHANGED nonRecordVars

---------------------------------------------------------------------------
(* Aggregator: build_histpun.py, build_inst_county.py and                  *)
(* build_histpun_debug.py.  A decoded CSV written by parse_decoded.py      *)
(* carries every column, so the "if column in df.columns" tests hold.      *)

UpperCase ==
    <<"A", "B", "C", "D", "E", "F", "G", "H", "I", "J", "K", "L", "M",
      "N", "O", "P", "Q", "R", "S", "T", "U", "V", "W", "X", "Y", "Z">>
LowerCase ==
    <<"a", "b", "c", "d", "e", "f", "g", "h", "i", "j", "k", "l", "m",
      "n", "o", "p", "q", "r", "s", "t", "u", "v", "w", "x", "y", "z">>
\* the place of ch among letters, 0 when it is none of them
LetterIndex(letters, ch) ==
    IF \E i \in 1..Len(letters) : letters[i] = ch
    THEN CHOOSE i \in 1..Len(letters) : letters[i] = ch
    ELSE 0

\* ord(ch), for the characters of the labels and dates of a decoded CSV
CodePoint(ch) ==
    IF ch \in DigitChars THEN 48 + DigitVal(ch)
    ELSE IF LetterIndex(UpperCase, ch) > 0 THEN 64 + LetterIndex(UpperCase, ch)
    ELSE IF LetterIndex(LowerCase, ch) > 0 THEN 96 + LetterIndex(LowerCase, ch)
    ELSE CASE ch = "\t" -> 9 [] ch = "\f" -> 12 [] ch = " " -> 32
           [] ch = "&" -> 38 [] ch = "'" -> 39 [] ch = "," -> 44
           [] ch = "-" -> 45 [] ch = "." -> 46 [] ch = "/" -> 47

\* str.lower()
LowerChar(ch) ==
    IF LetterIndex(UpperCase, ch) > 0 THEN LowerCase[LetterIndex(UpperCase, ch)]
    ELSE ch
Lower(s) == [i \in 1..Len(s) |-> LowerChar(s[i])]

\* a < b for two str: by code point, a proper prefix first
StrLess(a, b) ==
    \/ Len(a) < Len(b) /\ SubSeq(b, 1, Len(a)) = a
    \/ \E k \in 1..Len(a) :
          /\ k <= Len(b)
          /\ SubSeq(a, 1, k - 1) = SubSeq(b, 1, k - 1)
          /\ CodePoint(a[k]) < CodePoint(b[k])

\* p < q for two group keys (tuples of str of one length)
KeyLess(p, q) ==
    \E k \in 1..Len(p) :
        /\ \A j \in 1..(k - 1) : p[j] = q[j]
        /\ StrLess(p[k], q[k])

\* the keys of a groupby in the order groupby(sort=True) yields them
RECURSIVE SortedKeys(_)
SortedKeys(S) ==
    IF S = {} THEN <<>>
    ELSE LET m == CHOOSE x \in S : \A y \in S \ {x} : KeyLess(x, y)
         IN  <<m>> \o SortedKeys(S \ {m})

\* sorted(...) of a set of years
RECURSIVE SortedYears(_)
SortedYears(S) ==
    IF S = {} THEN <<>>
    ELSE LET m == CHOOSE x \in S : \A y \in S : x <= y
         IN  <<m>> \o SortedYears(S \ {m})

\* Series.apply / a list built row by row
Apply(frame, F(_)) == [i \in 1..Len(frame) |-> F(frame[i])]

RECURSIVE Concat(_)
Concat(seqs) == IF seqs = <<>> THEN <<>> ELSE Head(seqs) \o Concat(Tail(seqs))

\* ---- pd.to_datetime(..., errors="coerce") on the cells of a decoded CSV

IsLeap(y) == y % 4 = 0 /\ (y % 100 # 0 \/ y % 400 = 0)

DaysInMonth(y, m) ==
    IF m = 2 THEN (IF IsLeap(y) THEN 29 ELSE 28)
    ELSE IF m \in {4, 6, 9, 11} THEN 30 ELSE 31

\* the number of the day y-m-d, counting 0001-01-01 as day 1
Ordinal(y, m, d) ==
    365 * (y - 1) + ((y - 1) \div 4) - ((y - 1) \div 100) + ((y - 1) \div 400)
    + <<0, 31, 59, 90, 120, 151, 181, 212, 243, 273, 304, 334>>[m]
    + (IF m > 2 /\ IsLeap(y) THEN 1 ELSE 0)
    + d

NaT == [valid |-> FALSE, year |-> 0, ordinal |-> 0]

\* a cell is a timestamp when it reads YYYY-MM-DD and names a day of the
\* calendar that a Timestamp can hold; everything else is coerced to NaT
to_datetime(cell) ==
    IF ~(/\ IsStr(cell) /\ Len(cell) = 10
         /\ \A i \in {1, 2, 3, 4, 6, 7, 9, 10} : cell[i] \in DigitChars
         /\ cell[5] = "-" /\ cell[8] = "-")
    THEN NaT
    ELSE LET y == DigitsValue(SubSeq(cell, 1, 4))
             m == DigitsValue(SubSeq(cell, 6, 7))
             d == DigitsValue(SubSeq(cell, 9, 10))
         IN  IF y \in 1678..2261 /\ m \in 1..12 /\ d \in 1..DaysInMonth(y, m)
             THEN [valid |-> TRUE, year |-> y, ordinal |-> Ordinal(y, m, d)]
             ELSE NaT

\* (DateReceived - DateOfBirth).dt.days // 365, <NA> when the birth date is
\* NaT: Age is [na |-> TRUE] or [na |-> FALSE, years |-> n]
Age(received, born) ==
    IF ~born.valid THEN [na |-> TRUE, years |-> 0]
    ELSE [na |-> FALSE, years |-> (received.ordinal - born.ordinal) \div 365]

\* mutant: 18 counts as juvenile
classify_age_le(val) ==
    IF val.na THEN <<>>
    ELSE IF val.years <= 18 THEN Text.Juvenile ELSE Text.Adult

classify_age(val) ==
    IF val.na THEN <<>>
    ELSE IF val.years < 18 THEN Text.Juvenile ELSE Text.Adult

\* s.split(",", 1)[0]
BeforeComma(s) ==
    IF \A i \in 1..Len(s) : s[i] # "," THEN s
    ELSE SubSeq(s, 1, (CHOOSE i \in 1..Len(s) :
                          s[i] = "," /\ \A j \in 1..(i - 1) : s[j] # ",") - 1)

CrimeCategory(crime) ==
    Lower(Strip(BeforeComma(IF IsNa(crime) THEN <<>> ELSE crime)))

\* steps 3 to 5: the records with a DateReceived, with the columns Year,
\* Age, AgeCategory and CrimeCategory added
Derived(r) ==
    LET received == to_datetime(r.DateReceived)
        age == Age(received, to_datetime(r.DateOfBirth))
    IN  [RaceName |-> r.RaceName, SexName |-> r.SexName,
         ReligionName |-> r.ReligionName, Institution |-> r.Institution,
         County |-> r.County, Year |-> received.year,
         AgeCategory |-> classify_age(age),
         CrimeCategory |-> CrimeCategory(r.Crime)]

df_all(decoded) ==
    Apply(SelectSeq(decoded, LAMBDA r : to_datetime(r.DateReceived).valid), Derived)

\* ---- groupby(cols).size().reset_index(name="Count")

\* groupby leaves out the rows with a missing value in a key column
GroupSizes(df, cols) ==
    LET GroupKey(r, cs) == [i \in 1..Len(cs) |-> r[cs[i]]]
        kept == SelectSeq(df, LAMBDA r : \A i \in 1..Len(cols) : ~IsNa(r[cols[i]]))
        keys == {GroupKey(kept[i], cols) : i \in 1..Len(kept)}
        Size(k) == Cardinality({i \in 1..Len(kept) : GroupKey(kept[i], cols) = k})
    IN  Apply(SortedKeys(keys), LAMBDA k : [key |-> k, Count |-> Size(k)])

\* ---- the statistic rows

\* mutant: the key ends in the year of the century
source_key_short_year(year) ==
    <<"N", "Y", "I", "n", "m", "a", "t", "e", "R", "e", "c", "o", "r", "d", "s">> \o IntStr(year % 100)

\* f"NYInmateRecords{year}"
source_key(year) == <<"N", "Y", "I", "n", "m", "a", "t", "e", "R", "e", "c", "o", "r", "d", "s">> \o IntStr(year)

\* one dict appended to histpun_rows; build_inst_county.py has the extra
\* key "County"
Row(county, year, value, race, gender, age, crime, inst, cnty, complete) ==
    IF county
    THEN [Country |-> Text.UnitedStates, Year |-> year, Statistic |-> Text.Prisoners,
          Value |-> value, Source |-> source_key(year), State |-> Text.NewYork,
          Race |-> race, Gender |-> gender, Age |-> age, Crime |-> crime,
          Institution |-> inst, County |-> cnty, Complete |-> complete]
    ELSE [Country |-> Text.UnitedStates, Year |-> year, Statistic |-> Text.Prisoners,
          Value |-> value, Source |-> source_key(year), State |-> Text.NewYork,
          Race |-> race, Gender |-> gender, Age |-> age, Crime |-> crime,
          Institution |-> inst, Complete |-> complete]

\* stripped and lower-cased, as the label columns are written
Label(s) == Lower(Strip(s))

TotalRows(c, year, df) ==
    <<Row(c, year, Len(df), <<>>, <<>>, <<>>, <<>>, <<>>, <<>>, <<>>)>>

\* mutant: the pair rows carry the tag of the race rows
RaceGenderRows_race_tag(c, year, df) ==
    Apply(GroupSizes(df, <<"RaceName", "SexName">>),
          LAMBDA g : Row(c, year, g.Count, Label(g.key[1]), Label(g.key[2]),
                         <<>>, <<>>, <<>>, <<>>, Text.RaceTag))

RaceGenderRows(c, year, df) ==
    Apply(GroupSizes(df, <<"RaceName", "SexName">>),
          LAMBDA g : Row(c, year, g.Count, Label(g.key[1]), Label(g.key[2]),
                         <<>>, <<>>, <<>>, <<>>, Text.RaceGenderTag))

\* "if row[...]:" keeps the groups whose key is not the empty string
NonEmptyGroups(df, col) ==
    SelectSeq(GroupSizes(df, <<col>>), LAMBDA g : g.key[1] # <<>>)

RaceRows(c, year, df) ==
    Apply(NonEmptyGroups(df, "RaceName"),
          LAMBDA g : Row(c, year, g.Count, Label(g.key[1]), <<>>,
                         <<>>, <<>>, <<>>, <<>>, Text.RaceTag))

GenderRows(c, year, df) ==
    Apply(NonEmptyGroups(df, "SexName"),
          LAMBDA g : Row(c, year, g.Count, <<>>, Label(g.key[1]),
                         <<>>, <<>>, <<>>, <<>>, Text.GenderTag))

ReligionRows(c, year, df) ==
    Apply(NonEmptyGroups(df, "ReligionName"),
          LAMBDA g : Row(c, year, g.Count, <<>>, <<>>,
                         <<>>, <<>>, <<>>, <<>>, Text.ReligionTag))

\* mutant: one of the two categories is enough for the tag
age_complete_either(cat_set) ==
    IF {Text.Juvenile, Text.Adult} \cap cat_set # {} THEN Text.AgeTag ELSE <<>>

\* "age" if {"juvenile", "adult"}.issubset(cat_set) else ""
age_complete(cat_set) ==
    IF {Text.Juvenile, Text.Adult} \subseteq cat_set THEN Text.AgeTag ELSE <<>>

AgeRows(c, year, df) ==
    LET age_grp == GroupSizes(df, <<"AgeCategory">>)
        cat_set == {age_grp[i].key[1] : i \in 1..Len(age_grp)}
    IN  Apply(SelectSeq(age_grp, LAMBDA g : g.key[1] # <<>>),
              LAMBDA g : Row(c, year, g.Count, <<>>, <<>>, g.key[1],
                             <<>>, <<>>, <<>>, age_complete(cat_set)))

CrimeRows(c, year, df) ==
    Apply(NonEmptyGroups(df, "CrimeCategory"),
          LAMBDA g : Row(c, year, g.Count, <<>>, <<>>, <<>>,
                         g.key[1], <<>>, <<>>, <<>>))

\* build_histpun.py 7H: "if pd.notna(inst_name) and inst_name != ''"
InstitutionRows(c, year, df) ==
    Apply(NonEmptyGroups(df, "Institution"),
          LAMBDA g : Row(c, year, g.Count, <<>>, <<>>, <<>>,
                         <<>>, Label(g.key[1]), <<>>, <<>>))

\* build_histpun_debug.py (5) and build_inst_county.py 6H: the test is on
\* the stripped name
StrippedInstitutionRows(c, year, df) ==
    Apply(SelectSeq(GroupSizes(df, <<"Institution">>),
                LAMBDA g : Strip(g.key[1]) # <<>>),
          LAMBDA g : Row(c, year, g.Count, <<>>, <<>>, <<>>,
                         <<>>, Label(g.key[1]), <<>>, <<>>))

\* build_inst_county.py 6G
InstitutionCountyRows(c, year, df) ==
    Apply(SelectSeq(GroupSizes(df, <<"Institution", "County">>),
                LAMBDA g : Label(g.key[1]) # <<>> /\ Label(g.key[2]) # <<>>),
          LAMBDA g : Row(c, year, g.Count, <<>>, <<>>, <<>>,
                         <<>>, Label(g.key[1]), Label(g.key[2]), <<>>))

\* ---- the three scripts: "for year in years:" over the sorted years

\* mutant: the years come in the order of their first record (no sorted())
RECURSIVE Years_first_seen(_)
Years_first_seen(df) ==
    IF df = <<>> THEN <<>>
    ELSE <<df[1].Year>> \o Years_first_seen(SelectSeq(df, LAMBDA r : r.Year # df[1].Year))

\* sorted(df_all["Year"].dropna().unique())
Years(df) == SortedYears({df[i].Year : i \in 1..Len(df)})

\* mutant: the frame is not restricted to the year
YearFrame_every_year(df, year) == df

\* df_all[df_all["Year"] == year]
YearFrame(df, year) == SelectSeq(df, LAMBDA r : r.Year = year)

build_histpun(decoded) ==
    LET df == df_all(decoded)
        OneYear(year) ==
            LET year_df == YearFrame(df, year)
            IN  TotalRows(FALSE, year, year_df)
                \o RaceGenderRows(FALSE, year, year_df)
                \o RaceRows(FALSE, year, year_df)
                \o GenderRows(FALSE, year, year_df)
                \o ReligionRows(FALSE, year, year_df)
                \o AgeRows(FALSE, year, year_df)
                \o CrimeRows(FALSE, year, year_df)
                \o InstitutionRows(FALSE, year, year_df)
    IN  Concat(Apply(Years(df), OneYear))

build_inst_county(decoded) ==
    LET df == df_all(decoded)
        OneYear(year) ==
            LET sub == YearFrame(df, year)
            IN  TotalRows(TRUE, year, sub)
                \o RaceGenderRows(TRUE, year, sub)
                \o RaceRows(TRUE, year, sub)
                \o GenderRows(TRUE, year, sub)
                \o ReligionRows(TRUE, year, sub)
                \o AgeRows(TRUE, year, sub)
                \o InstitutionCountyRows(TRUE, year, sub)
                \o StrippedInstitutionRows(TRUE, year, sub)
    IN  Concat(Apply(Years(df), OneYear))

build_histpun_debug(decoded) ==
    LET df == df_all(decoded)
        OneYear(yr) ==
            LET year_df == YearFrame(df, yr)
            IN  TotalRows(FALSE, yr, year_df)
                \o RaceGenderRows(FALSE, yr, year_df)
                \o AgeRows(FALSE, yr, year_df)
                \o CrimeRows(FALSE, yr, year_df)
                \o StrippedInstitutionRows(FALSE, yr, year_df)
    IN  Concat(Apply(Years(df), OneYear))

\* ---- the decoded records the scripts read, and the runs

\* the cells of the sample records
Sample ==
    [White |-> <<"W", "h", "i", "t", "e">>, Black |-> <<"B", "l", "a", "c", "k">>,
     Male |-> <<"M", "a", "l", "e">>, Female |-> <<"F", "e", "m", "a", "l", "e">>,
     Catholic |-> <<"C", "a", "t", "h", "o", "l", "i", "c">>,
     Attica |-> <<"A", "t", "t", "i", "c", "a">>, Erie |-> <<"E", "r", "i", "e">>,
     Arson |-> <<"A", "r", "s", "o", "n", ",", " ", "d", "e", "g", "r", "e", "e", " ", "1", "s", "t">>,
     Received1952 |-> <<"1", "9", "5", "2", "-", "0", "6", "-", "1", "2">>,
     Received1953 |-> <<"1", "9", "5", "3", "-", "0", "1", "-", "0", "5">>,
     BornJuvenile |-> <<"1", "9", "4", "0", "-", "0", "6", "-", "1", "2">>,
     BornAdult |-> <<"1", "9", "2", "0", "-", "0", "6", "-", "1", "2">>,
     Born6573DaysBefore |-> <<"1", "9", "3", "4", "-", "0", "6", "-", "1", "4">>,
     Born6569DaysBefore |-> <<"1", "9", "3", "4", "-", "0", "6", "-", "1", "8">>]

\* one row of a decoded CSV as read_csv(dtype=str) returns it: a cell is a
\* str, or NaN where the file has nothing between the commas
DecodedRecord(received, born, race, sex) ==
    [DateReceived |-> received, DateOfBirth |-> born, Crime |-> Sample.Arson,
     RaceName |-> race, SexName |-> sex, ReligionName |-> Sample.Catholic,
     Institution |-> Sample.Attica, County |-> Sample.Erie]

MaxRecords == 3

SeqsUpTo(S, n) == UNION {[1..k -> S] : k \in 0..n}

AggregateIdle ==
    /\ aDecoded = <<>>
    /\ aRows = <<>>
    /\ aPc = "off"

Run(script, rows) ==
    /\ aPc = "decoded"
    /\ aRows' = rows
    /\ aPc' = script
    /\ UNCHANGED aDecoded
    /\ UNCHANGED nonAggregateVars

\* one disjunct per script
AggregateNext ==
    \/ Run("build_histpun", build_histpun(aDecoded))
    \/ Run("build_inst_county", build_inst_county(aDecoded))
    \/ Run("build_histpun_debug", build_histpun_debug(aDecoded))

---------------------------------------------------------------------------
(* One run of parse_decoded.py: the eight mapping files are loaded, the    *)
(* output folder is created, and every raw-formatted CSV is read, decoded  *)
(* and written.                                                            *)

\* the columns of a decoded CSV, in the order of the final selection
decoded_columns ==
    <<
    "Institution", "County", "CourtCommittedByName", "Crime",
    "CrimeAttemptedLabel", "DateOfBirth", "DateReceived",
    "MinSentenceLabel", "MaxSentenceLabel", "AgeAtCommitment", "RaceName",
    "ReligionName", "SexName", "IdentifierNumber", "CheckDigit",
    "YearsResidenceNY", "MilitaryServiceLabel", "EducationLevel",
    "OccupationName", "NarcoticsUseLabel", "MaritalStatusName",
    "PrevCriminalRecordLabel", "CountryOfBirthName", "YearEnteredUSNum",
    "NaturalizationStatusLabel", "PsychiatricClassificationLabel",
    "InstitutionOriginalName", "OriginalMonthYear", "MentalHygieneIDNum",
    "ReturnTypeLabel", "LatestReleaseDate", "LatestReturnDate",
    "CurrentInstitutionName"
    >>

\* the source column of each decoded categorical column (steps 1, 2, 5, 6,
\* 8, 9, 12 to 18, 20 to 22, 25 and 26: one mapping lookup each)
categorical_source ==
    [Institution |-> "ReceivingInstitutionCode", County |-> "CountyCommittedFrom",
     CourtCommittedByName |-> "CourtCommittedBy", RaceName |-> "Race",
     ReligionName |-> "Religion", SexName |-> "Sex",
     MilitaryServiceLabel |-> "MilitaryService", EducationLevel |-> "Education",
     OccupationName |-> "Occupation", NarcoticsUseLabel |-> "NarcoticsUse",
     MaritalStatusName |-> "MaritalStatus",
     PrevCriminalRecordLabel |-> "PrevCriminalRecord",
     CountryOfBirthName |-> "CountryOfBirth",
     NaturalizationStatusLabel |-> "NaturalizationStatus",
     PsychiatricClassificationLabel |-> "PsychiatricClassification",
     InstitutionOriginalName |-> "InstitutionOriginal",
     ReturnTypeLabel |-> "ReturnType", CurrentInstitutionName |-> "CurrentInstitution"]

\* steps 1 to 28 on one row of a raw-formatted CSV, whose fields are the
\* columns of the file.  The file has the date columns and the whole-code
\* sentence columns (the formatter writes them); a categorical source
\* column, CrimeDetails or a pass-through column may be absent.
\* What the mappings hold is data: here every mapping, the codebook
\* dictionaries of the script included, holds the codes "01", "1", "12" and
\* "14", the label of code k being "Label k".
decode_row(written) ==
    LET has(name) == name \in DOMAIN written
        cell(name) == read_cell(written[name])
        mapping == [k \in {<<"0", "1">>, <<"1">>, <<"1", "2">>, <<"1", "4">>} |->
                       <<"L", "a", "b", "e", "l", " ">> \o k]
        plain == [IdentifierNumber |-> "IdentifierNumber", CheckDigit |-> "CheckDigit",
                  YearsResidenceNY |-> "YearsResidenceNY",
                  YearEnteredUSNum |-> "YearEnteredUS",
                  MentalHygieneIDNum |-> "MentalHygieneID"]
    IN  [name \in {decoded_columns[i] : i \in 1..Len(decoded_columns)} |->
            IF name \in DOMAIN categorical_source
            THEN (IF has(categorical_source[name])
                  THEN DecodeCode(cell(categorical_source[name]), mapping)
                  ELSE absent_column)
            ELSE IF name \in DOMAIN plain
            THEN (IF ~has(plain[name]) \/ IsNa(cell(plain[name]))
                  THEN <<>> ELSE cell(plain[name]))
            \* line 252 reads df["AgeAtCommitment"] before it tests for the column
            ELSE IF name = "AgeAtCommitment"
            THEN (IF ~has(name) THEN Raised
                  ELSE IF IsNa(cell(name)) THEN <<>> ELSE cell(name))
            ELSE IF name \in DOMAIN decode_dates(written) THEN decode_dates(written)[name]
            ELSE IF name = "Crime"
            THEN (IF has("CrimeDetails") THEN DecodeCrime(cell("CrimeDetails"), mapping)
                  ELSE absent_column)
            ELSE IF name = "MinSentenceLabel"
            THEN SentenceLabel({"Sentence"}, [Sentence |-> cell("MinSentence")])
            ELSE IF name = "MaxSentenceLabel"
            THEN SentenceLabel({"Sentence"}, [Sentence |-> cell("MaxSentence")])
            ELSE <<>>]

\* mutant: the rows come out in the opposite order
decode_file_reversed(records) ==
    [columns |-> decoded_columns,
     rows |-> [i \in 1..Len(records) |-> decode_row(records[Len(records) + 1 - i])]]

\* one pass of the loop body: the decoded CSV of one raw-formatted CSV
decode_file(records) ==
    [columns |-> decoded_columns, rows |-> Apply(records, decode_row)]

\* the mapping files, in the order the script opens them
MappingFiles ==
    <<"institution_map.json", "county_map.json", "crime_map.json", "country_map.json",
      "psych_map.json", "religion_map.json", "sex_map.json", "return_type_map.json">>

MaxFiles == 2
MaxRows == 2

RunIdle ==
    /\ uFiles = <<>>
    /\ uInputs = <<>>
    /\ uFolder = FALSE
    /\ uOutputs = <<>>
    /\ uPc = "off"

\* mutant: only a missing file stops the run
LoadMappings_missing_only ==
    /\ uPc = "start"
    /\ uPc' = IF \E i \in 1..Len(uFiles) : uFiles[i] = "missing"
              THEN "exit(1)" ELSE "loaded"
    /\ UNCHANGED <<uFiles, uInputs, uFolder, uOutputs>>
    /\ UNCHANGED nonRunVars

\* the try block: open() raises FileNotFoundError for a missing file and
\* json.load raises JSONDecodeError for malformed content; both handlers
\* print and call sys.exit(1)
LoadMappings ==
    /\ uPc = "start"
    /\ uPc' = IF \E i \in 1..Len(uFiles) : uFiles[i] # "ok"
              THEN "exit(1)" ELSE "loaded"
    /\ UNCHANGED <<uFiles, uInputs, uFolder, uOutputs>>
    /\ UNCHANGED nonRunVars

\* os.makedirs("csv_decoded", exist_ok=True)
CreateOutputFolder ==
    /\ uPc = "loaded"
    /\ uFolder' = TRUE
    /\ uPc' = "loop"
    /\ UNCHANGED <<uFiles, uInputs, uOutputs>>
    /\ UNCHANGED nonRunVars

\* one pass of "for path in glob.glob(...)": read_csv, steps 1 to 28, the
\* column selection and to_csv; an exception ends the run
DecodeFile ==
    /\ uPc = "loop"
    /\ Len(uOutputs) < Len(uInputs)
    /\ LET decoded == decode_file(uInputs[Len(uOutputs) + 1])
           raised == \E i \in 1..Len(decoded.rows) : Raises(decoded.rows[i])
       IN  /\ uOutputs' = IF raised THEN uOutputs ELSE Append(uOutputs, decoded)
           /\ uPc' = IF raised THEN "exit(1)" ELSE "loop"
    /\ UNCHANGED <<uFiles, uInputs, uFolder>>
    /\ UNCHANGED nonRunVars

\* print("All files decoded.") and the end of the script
FinishRun ==
    /\ uPc = "loop"
    /\ Len(uOutputs) = Len(uInputs)
    /\ uPc' = "exit(0)"
    /\ UNCHANGED <<uFiles, uInputs, uFolder, uOutputs>>
    /\ UNCHANGED nonRunVars

RunNext == LoadMappings \/ CreateOutputFolder \/ DecodeFile \/ FinishRun

---------------------------------------------------------------------------
(* One run of run_all_parsers.py: main() starts the five scripts one after *)
(* the other with subprocess.check_call, which raises CalledProcessError   *)
(* when the script's exit status is not 0.                                 *)

OrchIdle ==
    /\ oScripts = {}
    /\ oTxt = 0
    /\ oMappings = "ok"
    /\ oRaw = 0
    /\ oDecoded = 0
    /\ oRan = <<>>
    /\ oOut = <<>>
    /\ oPc = "off"

\* the scripts of the repository
Repository ==
    {"build_histpun.py", "build_histpun_debug.py", "build_inst_county.py",
     "parse_decoded.py", "parse_raw_formatter.py", "run_all_parsers.py"}

\* mutant: the institution x court aggregate is started last
stages_court_last ==
    <<[script |-> "parse_raw_formatter.py", error |-> "Error in raw formatting:"],
      [script |-> "parse_decoded.py", error |-> "Error in decoding step:"],
      [script |-> "build_histpun.py", error |-> "Error in building histpun output:"],
      [script |-> "build_inst_county.py",
       error |-> "Error in building institution x county output:"],
      [script |-> "build_inst_court.py",
       error |-> "Error in building institution x court output:"]>>

\* the five try blocks of main(): the script started and the line printed
\* when it fails (the multiplication sign of the messages is written x)
stages ==
    <<[script |-> "parse_raw_formatter.py", error |-> "Error in raw formatting:"],
      [script |-> "parse_decoded.py", error |-> "Error in decoding step:"],
      [script |-> "build_histpun.py", error |-> "Error in building histpun output:"],
      [script |-> "build_inst_court.py",
       error |-> "Error in building institution x court output:"],
      [script |-> "build_inst_county.py",
       error |-> "Error in building institution x county output:"]>>

\* parse_raw_formatter.py: every text file is handled inside try/except
\* Exception and written to csv_raw_formatted under its own name; the script
\* ends with status 0
parse_raw_formatter ==
    [status |-> 0, raw |-> IF oRaw > oTxt THEN oRaw ELSE oTxt, decoded |-> oDecoded]

\* parse_decoded.py: sys.exit(1) when a mapping file is missing or
\* malformed; otherwise one decoded CSV per raw-formatted CSV (the rows the
\* formatter writes raise nothing) and status 0
parse_decoded ==
    IF oMappings # "ok" THEN [status |-> 1, raw |-> oRaw, decoded |-> oDecoded]
    ELSE [status |-> 0, raw |-> oRaw, decoded |-> IF oDecoded > oRaw THEN oDecoded ELSE oRaw]

\* build_histpun.py and build_inst_county.py: FileNotFoundError, hence
\* status 1, when csv_decoded holds no decoded CSV
build_aggregate ==
    [status |-> IF oDecoded = 0 THEN 1 ELSE 0, raw |-> oRaw, decoded |-> oDecoded]

\* subprocess.check_call([python_exec, script]): the interpreter ends with
\* status 2 when it cannot open the script; a script whose code the
\* repository does not hold may end with any status
check_call(script) ==
    IF script \notin oScripts THEN {[status |-> 2, raw |-> oRaw, decoded |-> oDecoded]}
    ELSE IF script = "parse_raw_formatter.py" THEN {parse_raw_formatter}
    ELSE IF script = "parse_decoded.py" THEN {parse_decoded}
    ELSE IF script \in {"build_histpun.py", "build_inst_county.py"} THEN {build_aggregate}
    ELSE {[status |-> st, raw |-> oRaw, decoded |-> oDecoded] : st \in {0, 1}}

\* the i-th try block: check_call, and on CalledProcessError the print and
\* sys.exit(1)
Stage(i) ==
    /\ oPc = "main"
    /\ Len(oRan) = i - 1
    /\ \E done \in check_call(stages[i].script) :
          /\ oRan' = Append(oRan, [script |-> stages[i].script, status |-> done.status])
          /\ oRaw' = done.raw
          /\ oDecoded' = done.decoded
          /\ oOut' = IF done.status = 0 THEN oOut ELSE Append(oOut, stages[i].error)
          /\ oPc' = IF done.status = 0 THEN "main" ELSE "exit(1)"
    /\ UNCHANGED <<oScripts, oTxt, oMappings>>
    /\ UNCHANGED nonOrchVars

\* print('All parsing and aggregation steps completed successfully.') and
\* the end of main()
Finish ==
    /\ oPc = "main"
    /\ Len(oRan) = Len(stages)
    /\ oOut' = Append(oOut, "All parsing and aggregation steps completed successfully.")
    /\ oPc' = "exit(0)"
    /\ UNCHANGED <<oScripts, oTxt, oMappings, oRaw, oDecoded, oRan>>
    /\ UNCHANGED nonOrchVars

---------------------------------------------------------------------------
(* Specifications                                                          *)

SentenceInit ==
    /\ sCols \in SUBSET SentenceColumns
    /\ sRow \in {r \in [sCols -> SentenceCells \cup MonthCells] :
                    \A c \in sCols : r[c] \in CellDomain(c, sCols)}
    /\ sLabel = <<>>
    /\ sPc = "row"
    /\ CodeIdle
    /\ StubIdle
    /\ PivotIdle
    /\ AggregateIdle
    /\ RecordIdle
    /\ RunIdle
    /\ OrchIdle

SpecSentence ==
    /\ SentenceInit
    /\ [][\/ DecodeMinSentence
          \/ DecodeMaxSentence]_vars

CodeInit ==
    /\ cPresent \in BOOLEAN
    /\ cCell \in (IF cPresent
                  THEN StringsUpTo({"&", "9", "0", "1", "2", "\f"}, MaxCodeLen) \cup {NaN}
                  ELSE {NaN})
    /\ cMap \in Mappings
    /\ cClean = NaN
    /\ cLabel = NaN
    /\ cPc = "cell"
    /\ SentenceIdle
    /\ StubIdle
    /\ PivotIdle
    /\ AggregateIdle
    /\ RecordIdle
    /\ RunIdle
    /\ OrchIdle

SpecCode ==
    /\ CodeInit
    /\ [][\/ NormalizeCode
          \/ LookupLabel
          \/ DecodeAbsentColumn
          \/ DecodeCrimeDetails
          \/ CleanMarker]_vars

StubInit ==
    /\ dRaw \in (StringsUpTo({"0", "1", "9", "/"}, MaxDateLen) \cup {NaN})
    /\ dFmt \in {"MDDYY", "MYY"}
    /\ dStub = <<>>
    /\ dPc = "raw"
    /\ SentenceIdle
    /\ CodeIdle
    /\ PivotIdle
    /\ AggregateIdle
    /\ RecordIdle
    /\ RunIdle
    /\ OrchIdle

SpecStub ==
    /\ StubInit
    /\ [][\/ FormatterParse
          \/ DecoderParse]_vars

\* the stubs: day stubs of every year, a few month stubs, and stubs that are
\* empty, missing, too short, too long or without dashes; the references:
\* the resolved DateReceived of every year of the 1900s, and reference dates
\* that are empty, missing, too short or "nan"
PivotInit ==
    /\ pStub \in ({yy \o md : yy \in TwoDigitYears,
                            md \in {<<"-","0","6","-","1","2">>, <<"-","1","2","-","3","1">>}}
                \cup {yy \o <<"-","0","6">> : yy \in {Pad2(n) : n \in {0, 9, 52, 99}}}
                \cup {<<>>, NaN, <<"5">>, <<"5","2","-","0","6","-","1">>,
                      <<"5","2","-","0","6","-","1","2","3">>, <<"5","2","/","0","6","/","1","2">>})
    /\ pRef \in ({<<"1","9">> \o yy \o <<"-","0","6","-","1","2">> : yy \in TwoDigitYears}
                \cup {<<>>, NaN, <<"1","9","5">>, <<"n","a","n">>})
    /\ pOut = <<>>
    /\ pPc = "args"
    /\ SentenceIdle
    /\ CodeIdle
    /\ StubIdle
    /\ AggregateIdle
    /\ RecordIdle
    /\ RunIdle
    /\ OrchIdle

SpecPivot ==
    /\ PivotInit
    /\ [][\/ Call("pivot_date_received_formatter", pivot_date_received_formatter(pStub))
          \/ Call("pivot_dob_formatter", pivot_dob_formatter(pStub, pRef))
          \/ Call("pivot_month_year_formatter", pivot_month_year_formatter(pStub))
          \/ Call("pivot_date_received_decoded", pivot_date_received_decoded(pStub))
          \/ Call("pivot_dob_decoded", pivot_dob_decoded(pStub, pRef))
          \/ Call("pivot_month_year_decoded", pivot_month_year_decoded(pStub))]_vars

\* the decoded CSVs read and concatenated: up to MaxRecords of the records
AggregateInit(records) ==
    /\ aDecoded \in SeqsUpTo(records, MaxRecords)
    /\ aRows = <<>>
    /\ aPc = "decoded"
    /\ SentenceIdle
    /\ CodeIdle
    /\ StubIdle
    /\ PivotIdle
    /\ RecordIdle
    /\ RunIdle
    /\ OrchIdle

\* records that differ in their dates
SpecAggregateAge ==
    /\ AggregateInit({DecodedRecord(received, born, Sample.White, Sample.Male) :
                    received \in {Sample.Received1952, Sample.Received1953, NaN},
                    born \in {Sample.BornJuvenile, Sample.BornAdult, NaN}})
    /\ [][AggregateNext]_vars

\* records received on 1952-06-12 that differ in the birth date: none, 12
\* and 32 years before, 6573 days before (18 * 365 + 3: Age 18, five days
\* into the 18th year by the calendar's leap days), 6569 days before
\* (Age 17), and 207 days after the reception (Age -1)
SpecAggregateBirth ==
    /\ AggregateInit({DecodedRecord(Sample.Received1952, born, Sample.White, Sample.Male) :
                    born \in {NaN, Sample.BornJuvenile, Sample.BornAdult, Sample.Born6573DaysBefore,
                              Sample.Born6569DaysBefore, Sample.Received1953}})
    /\ [][AggregateNext]_vars

\* records whose RaceName or SexName may be a single blank
SpecAggregateBlank ==
    /\ AggregateInit({DecodedRecord(Sample.Received1952, Sample.BornAdult, race, sex) :
                    race \in {Sample.White, <<" ">>, NaN}, sex \in {Sample.Male, <<" ">>, NaN}})
    /\ [][AggregateNext]_vars

\* records that differ in year, race and sex; RaceName / SexName is empty
\* in the records of a file whose input had no Race / Sex column
SpecAggregateRaceGender ==
    /\ AggregateInit({DecodedRecord(received, Sample.BornAdult, rs[1], rs[2]) :
                    received \in {Sample.Received1952, Sample.Received1953},
                    rs \in {<<Sample.White, Sample.Male>>, <<Sample.Black, Sample.Female>>,
                            <<Sample.White, NaN>>, <<NaN, Sample.Female>>}})
    /\ [][AggregateNext]_vars

\* records of two years and two groups, to be read in every order
SpecAggregateOrder ==
    /\ AggregateInit({DecodedRecord(received, Sample.BornAdult, rs[1], rs[2]) :
                    received \in {Sample.Received1952, Sample.Received1953},
                    rs \in {<<Sample.White, Sample.Male>>, <<Sample.Black, Sample.Female>>}})
    /\ [][AggregateNext]_vars

RecordInit ==
    /\ rLine \in Lines
    /\ rRaw = NaN
    /\ rWritten = NaN
    /\ rDecoded = NaN
    /\ rPc = "line"
    /\ SentenceIdle
    /\ CodeIdle
    /\ StubIdle
    /\ PivotIdle
    /\ AggregateIdle
    /\ RunIdle
    /\ OrchIdle

SpecRecord ==
    /\ RecordInit
    /\ [][\/ ExtractFields
          \/ FormatRecord
          \/ DecodeRecord]_vars

\* every mapping file in order, or one of them missing or malformed, or the
\* first missing and the last malformed
RunInit(inputs) ==
    /\ uFiles \in {[i \in 1..Len(MappingFiles) |-> IF i = bad THEN how ELSE "ok"] :
                      bad \in 0..Len(MappingFiles), how \in {"missing", "malformed"}}
                  \cup {[i \in 1..Len(MappingFiles) |->
                            IF i = 1 THEN "missing"
                            ELSE IF i = Len(MappingFiles) THEN "malformed" ELSE "ok"]}
    /\ uInputs \in inputs
    /\ uFolder = FALSE
    /\ uOutputs = <<>>
    /\ uPc = "start"
    /\ SentenceIdle
    /\ CodeIdle
    /\ StubIdle
    /\ PivotIdle
    /\ AggregateIdle
    /\ RecordIdle
    /\ OrchIdle

\* the raw-formatted CSVs of a run: up to MaxFiles files of 1..MaxRows rows,
\* each row written by the formatter for a full line or for a short line
SpecRun ==
    /\ RunInit(SeqsUpTo(SeqsUpTo({format_dates(read_fwf(FullLine)),
                                   format_dates(read_fwf(Slice(FullLine, 0, 38)))}, MaxRows) \ {<<>>},
                         MaxFiles))
    /\ [][RunNext]_vars

\* raw-formatted CSVs the formatter did not write: a row may carry
\* DateOfBirth as the five digits of the text file next to an empty
\* DateReceived cell (the layout the decoder's parse_iso_date reads)
SpecRunUnformatted ==
    /\ RunInit(SeqsUpTo(SeqsUpTo({format_dates(read_fwf(FullLine)),
                                   [format_dates(read_fwf(FullLine))
                                       EXCEPT !["DateOfBirth"] = <<"5", "1", "2", "3", "0">>,
                                              !["DateReceived"] = <<>>]}, MaxRows) \ {<<>>},
                         MaxFiles))
    /\ [][RunNext]_vars

\* runs over a file that lacks one categorical source column (or
\* CrimeDetails), or all of them, in each of its 1..MaxRows rows, alone or
\* followed by a file with every column
SpecRunAbsent ==
    /\ RunInit(LET full == format_dates(read_fwf(FullLine))
                    sources == {categorical_source[name] : name \in DOMAIN categorical_source}
                                   \cup {"CrimeDetails"}
                    Without(cols) == [name \in DOMAIN full \ cols |-> full[name]]
                    files == {[i \in 1..n |-> Without(cols)] :
                                 n \in 1..MaxRows, cols \in {{c} : c \in sources} \cup {sources}}
                IN  {<<f>> : f \in files} \cup {<<f, <<full>>>> : f \in files})
    /\ [][RunNext]_vars

\* a working directory that holds the repository's scripts, or these and a
\* build_inst_court.py; up to MaxFiles input text files; the mapping files
\* in order or not; the output folders empty or left by an earlier run
OrchInit ==
    /\ oScripts \in {Repository, Repository \cup {"build_inst_court.py"}}
    /\ oTxt \in 0..MaxFiles
    /\ oMappings \in {"ok", "missing", "malformed"}
    /\ oRaw \in 0..MaxFiles
    /\ oDecoded \in 0..MaxFiles
    /\ oRan = <<>>
    /\ oOut = <<>>
    /\ oPc = "main"
    /\ SentenceIdle
    /\ CodeIdle
    /\ StubIdle
    /\ PivotIdle
    /\ AggregateIdle
    /\ RecordIdle
    /\ RunIdle

SpecOrch ==
    /\ OrchInit
    /\ [][\/ Stage(1)
          \/ Stage(2)
          \/ Stage(3)
          \/ Stage(4)
          \/ Stage(5)
          \/ Finish]_vars

---------------------------------------------------------------------------
(* Sentence Decoder: claims                                                *)

SentenceDecoded == sPc \in {"min", "max"}

\* the file carries the years and the months column: both components come
\* from the row
HasYearsMonths == {"SentenceYears", "SentenceMonths"} \subseteq sCols

\* the file carries the whole-code column only: months is passed as ""
HasSentenceOnly == ~HasYearsMonths /\ "Sentence" \in sCols

MaxYears == <<"9","9","9">>
DeathMonths == <<"&","&","&">>

C10_DeathForEveryYears ==
    (SentenceDecoded /\ HasYearsMonths /\ sRow["SentenceMonths"] = DeathMonths)
        => sLabel = Text.DeathIndeterminate

\* the two components decode_sentence_years_months is called with
DecoderCalled == SentenceDecoded /\ (HasYearsMonths \/ HasSentenceOnly)
YearsArg == IF HasYearsMonths THEN sRow["SentenceYears"] ELSE sRow["Sentence"]
MonthsArg == IF HasYearsMonths THEN sRow["SentenceMonths"] ELSE <<>>

\* both components are codes and none of the special codes applies
NonSentinel ==
    /\ IsStr(YearsArg) /\ IsStr(MonthsArg)
    /\ MonthsArg # DeathMonths
    /\ YearsArg # MaxYears
    /\ ~(Len(YearsArg) >= 2 /\ YearsArg[1] = "9" /\ YearsArg[2] \in {"2", "5"})

\* "<N> <unit>", with an "s" when N is not 1
Counted(n, unit) == IntStr(n) \o <<" ">> \o unit \o (IF n = 1 THEN <<>> ELSE <<"s">>)

\* the output prescribed for years N and months M
Composed(N, M) ==
    IF N > 0 /\ M > 0
    THEN Counted(N, <<"y","r">>) \o <<",", " ">> \o Counted(M, <<"m","o">>)
    ELSE IF N > 0 THEN Counted(N, <<"y","r">>)
    ELSE IF M > 0 THEN Counted(M, <<"m","o">>)
    ELSE <<"0", " ", "m","o","n","t","h","s">>

---------------------------------------------------------------------------
(* Code Normalizer and Category Decoder: claims                            *)

\* the code the label is looked up under: the cell, or for the crime column
\* the first two characters of the cell
LookupCode ==
    IF cPc = "crime" THEN (IF IsNa(cCell) THEN <<>> ELSE Slice(cCell, 0, 2))
    ELSE cCell

DegreeSuffixes ==
    {<<",", " ", "d","e","g","r","e","e", " ">> \o d :
        d \in {<<"1","s","t">>, <<"2","n","d">>, <<"3","r","d">>}}

\* C7 as stated: for every raw value of a present categorical column and
\* every mapping, the decoded label is the mapping's label for that code or
\* exactly "Unknown"; it is never empty and decoding never raises.
C7_AsStated ==
    cPc \in {"label", "crime"} =>
        /\ IsStr(cLabel)
        /\ cLabel # <<>>
        /\ \/ cLabel = Text.Unknown
           \/ LookupCode \in DOMAIN cMap /\ cLabel = cMap[LookupCode]

\* C7 amended: the decoded label is exactly "Unknown", or the mapping's
\* label for the code, or (crime column only) the mapping's label for the
\* two-character crime code followed by ", degree 1st", ", degree 2nd" or
\* ", degree 3rd"; it is never empty and decoding never raises.
C7_LabelOrUnknownOrDegree ==
    cPc \in {"label", "crime"} =>
        /\ IsStr(cLabel)
        /\ cLabel # <<>>
        /\ \/ cLabel = Text.Unknown
           \/ LookupCode \in DOMAIN cMap /\ cLabel = cMap[LookupCode]
           \/ /\ cPc = "crime"
              /\ LookupCode \in DOMAIN cMap
              /\ \E suffix \in DegreeSuffixes : cLabel = cMap[LookupCode] \o suffix

C7_Witness ==
    /\ cPc = "crime"
    /\ cCell = <<"1", "2", "1">>
    /\ <<"1", "2">> \in DOMAIN cMap
    /\ cLabel = cMap[<<"1", "2">>] \o <<",", " ", "d","e","g","r","e","e", " ", "2","n","d">>

SentinelTokens == {<<"&">>, <<"9">>, <<>>}

\* C8 as stated: the result is the null marker exactly when the raw value is
\* "&", "9" or the empty string, and is the input unchanged for every other
\* value; for clean_unknown (null marker NaN) and clean_marker (null marker
\* "").
C8_AsStated ==
    /\ (cPc = "clean" /\ IsStr(cCell)) =>
          /\ IsNa(cClean) <=> cCell \in SentinelTokens
          /\ cCell \notin SentinelTokens => cClean = cCell
    /\ (cPc = "marker" /\ IsStr(cCell)) =>
          /\ cClean = <<>> <=> cCell \in SentinelTokens
          /\ cCell \notin SentinelTokens => cClean = cCell

\* the value without its leading and trailing whitespace
RECURSIVE Trimmed(_)
Trimmed(x) ==
    IF x # <<>> /\ x[1] \in {" ", "\t", "\f"} THEN Trimmed(Tail(x))
    ELSE IF x # <<>> /\ x[Len(x)] \in {" ", "\t", "\f"}
         THEN Trimmed(SubSeq(x, 1, Len(x) - 1))
    ELSE x

\* C8 amended: clean_unknown yields the null marker exactly when the value
\* is "&", "9" or "" and the value unchanged otherwise (a missing value
\* stays missing); clean_marker yields "" exactly when the value is missing
\* or, trimmed of surrounding whitespace, is "&", "9" or "", and the trimmed
\* value otherwise.  "99" and "&&" are sentinels for neither.
C8_SentinelsExactOrTrimmed ==
    /\ cPc = "clean" =>
          /\ IsNa(cClean) <=> (IsNa(cCell) \/ cCell \in SentinelTokens)
          /\ ~IsNa(cClean) => cClean = cCell
    /\ cPc = "marker" =>
          /\ cClean = <<>> <=> (IsNa(cCell) \/ Trimmed(cCell) \in SentinelTokens)
          /\ cClean # <<>> => cClean = Trimmed(cCell)
    /\ cPc \in {"clean", "marker"} /\ cCell \in {<<"9","9">>, <<"&","&">>} =>
          cClean = cCell

C8_Witness ==
    /\ cPc = "marker"
    /\ cCell = <<"\f", "9">>
    /\ cClean = <<>>

\* C26 as stated: the raw code "9" decodes to "Unknown" even when the
\* mapping has an entry for "9", and so no decoded label is ever the label
\* the mapping gives to "9".
C26_AsStated ==
    cPc = "label" =>
        /\ cCell = <<"9">> => cLabel = Text.Unknown
        /\ <<"9">> \in DOMAIN cMap => cLabel # cMap[<<"9">>]

\* C26 amended: the raw code "9" decodes to "Unknown" even when the mapping
\* has an entry for "9"; a decoded label is the label the mapping gives to
\* "9" only when the raw code is another key to which the mapping gives
\* that same label.
C26_NineIsUnknown ==
    cPc = "label" =>
        /\ cCell = <<"9">> => cLabel = Text.Unknown
        /\ (<<"9">> \in DOMAIN cMap /\ cLabel = cMap[<<"9">>]) =>
              /\ cCell # <<"9">>
              /\ cCell \in DOMAIN cMap
              /\ cMap[cCell] = cMap[<<"9">>]

C26_Witness ==
    /\ cPc = "label"
    /\ cCell = <<"9">>
    /\ <<"9">> \in DOMAIN cMap
    /\ <<"1">> \in DOMAIN cMap
    /\ cMap[<<"9">>] # cMap[<<"1">>]
    /\ cLabel = Text.Unknown

---------------------------------------------------------------------------
(* Date Stub Parser: claims                                                *)

StubParsed == dPc \in {"formatter", "decoder"}

\* the digits that remain of the raw cell, in order
RemainingDigits ==
    IF IsStr(dRaw) THEN SelectSeq(dRaw, LAMBDA ch : ch \in DigitChars) ELSE <<>>

\* the stub the claim prescribes for the remaining digits d: the month
\* takes 1 digit for the shorter length and 2 for the longer, then 2 digits
\* of day (day-level only), then 2 digits of year
PrescribedStub(d, fmt) ==
    IF fmt = "MDDYY" /\ Len(d) = 5
    THEN <<d[4], d[5], "-", "0", d[1], "-", d[2], d[3]>>
    ELSE IF fmt = "MDDYY" /\ Len(d) = 6
    THEN <<d[5], d[6], "-", d[1], d[2], "-", d[3], d[4]>>
    ELSE IF fmt = "MYY" /\ Len(d) = 3
    THEN <<d[2], d[3], "-", "0", d[1]>>
    ELSE IF fmt = "MYY" /\ Len(d) = 4
    THEN <<d[3], d[4], "-", d[1], d[2]>>
    ELSE <<>>

\* C6: after stripping non-digit characters the day-level layout yields a
\* non-empty stub iff exactly 5 or 6 digits remain and the month-level
\* layout iff exactly 3 or 4 remain; the month takes 1 digit for the shorter
\* length and 2 for the longer, then 2 digits of day (day-level only), then
\* 2 digits of year; the output is the zero-padded yy-MM-DD (8 characters)
\* or yy-MM (5 characters).
C6_StubByDigitCount ==
    StubParsed =>
        /\ dStub # <<>> <=>
             Len(RemainingDigits) \in (IF dFmt = "MDDYY" THEN {5, 6} ELSE {3, 4})
        /\ dStub = PrescribedStub(RemainingDigits, dFmt)
        /\ dStub # <<>> => Len(dStub) = (IF dFmt = "MDDYY" THEN 8 ELSE 5)

C6_Witness ==
    /\ dPc = "formatter"
    /\ dFmt = "MDDYY"
    /\ dRaw = <<"9", "/", "0", "1", "/", "1", "9">>
    /\ dStub = <<"1", "9", "-", "0", "9", "-", "0", "1">>

---------------------------------------------------------------------------
(* Century Resolver: claims                                                *)

RelativeCalled == pPc \in {"pivot_dob_formatter", "pivot_dob_decoded"}
FixedDayCalled ==
    pPc \in {"pivot_date_received_formatter", "pivot_date_received_decoded"}
FixedMonthCalled ==
    pPc \in {"pivot_month_year_formatter", "pivot_month_year_decoded"}

\* a well-formed day stub yy-MM-DD and a resolved reference date YYYY-MM-DD
WellFormedStub ==
    /\ IsStr(pStub) /\ Len(pStub) = 8
    /\ \A i \in {1, 2, 4, 5, 7, 8} : pStub[i] \in DigitChars
    /\ pStub[3] = "-" /\ pStub[6] = "-"
ResolvedReference ==
    /\ IsStr(pRef) /\ Len(pRef) = 10
    /\ \A i \in {1, 2, 3, 4, 6, 7, 9, 10} : pRef[i] \in DigitChars
    /\ pRef[5] = "-" /\ pRef[8] = "-"

StubYY == 10 * DigitVal(pStub[1]) + DigitVal(pStub[2])
RefYY == 10 * DigitVal(pRef[3]) + DigitVal(pRef[4])

\* C4: for every well-formed stub with two-digit year yy and every resolved
\* reference date whose year has two-digit part ryy, pivot_dob resolves the
\* year to 1800+yy when yy > ryy and to 1900+yy when yy <= ryy (1900s at
\* yy = ryy), and carries month and day over unchanged.
C4_RelativeCentury ==
    (RelativeCalled /\ WellFormedStub /\ ResolvedReference) =>
        /\ IsStr(pOut) /\ Len(pOut) = 10
        /\ SubSeq(pOut, 1, 2) = (IF StubYY > RefYY THEN <<"1", "8">> ELSE <<"1", "9">>)
        /\ SubSeq(pOut, 3, 4) = SubSeq(pStub, 1, 2)
        /\ SubSeq(pOut, 5, 10) = SubSeq(pStub, 3, 8)

C4_Witness ==
    /\ pPc = "pivot_dob_decoded"
    /\ pStub = <<"5", "2", "-", "1", "2", "-", "3", "1">>
    /\ pRef = <<"1", "9", "5", "2", "-", "0", "6", "-", "1", "2">>
    /\ pOut = <<"1", "9", "5", "2", "-", "1", "2", "-", "3", "1">>

\* the right stub length of the entry point that was called
StubLength == IF FixedMonthCalled THEN 5 ELSE 8

\* C5 as stated: every entry point returns the empty string and raises no
\* exception whenever the stub is empty or has the wrong length, and
\* pivot_dob also returns the empty string without raising whenever the
\* reference date is empty or missing (the null value of an empty
\* DateReceived cell included).
C5_EmptyWithoutRaising ==
    /\ ((RelativeCalled \/ FixedDayCalled \/ FixedMonthCalled)
          /\ IsStr(pStub) /\ Len(pStub) # StubLength) => pOut = <<>>
    /\ (RelativeCalled /\ IsStr(pStub) /\ (pRef = <<>> \/ IsNa(pRef)))
          => pOut = <<>>

---------------------------------------------------------------------------
(* Aggregator: claims                                                      *)

Built == aPc \in {"build_histpun", "build_inst_county", "build_histpun_debug"}

RowsOf(year) == SelectSeq(aRows, LAMBDA r : r.Year = year)
RowYears == {aRows[i].Year : i \in 1..Len(aRows)}

\* the unqualified total row: every breakdown field and the tag are empty
Unqualified(r) ==
    /\ r.Race = <<>> /\ r.Gender = <<>> /\ r.Age = <<>> /\ r.Crime = <<>>
    /\ r.Institution = <<>> /\ r.Complete = <<>>
    /\ "County" \in DOMAIN r => r.County = <<>>

RECURSIVE SumOfValues(_)
SumOfValues(rows) ==
    IF rows = <<>> THEN 0 ELSE Head(rows).Value + SumOfValues(Tail(rows))

TotalOf(year) == SumOfValues(SelectSeq(RowsOf(year), Unqualified))
Tagged(year, tag) == SelectSeq(RowsOf(year), LAMBDA r : r.Complete = tag)

\* the breakdown tagged tag, where a year has one, adds up to the year's total
SumsToTotal(tag) ==
    \A year \in RowYears :
        Tagged(year, tag) # <<>> => SumOfValues(Tagged(year, tag)) = TotalOf(year)

\* C1 as stated: for any set of decoded records and any year with at least
\* one race x gender row, the Values of the year's race x gender rows
\* (Complete = "race,gender") add up to the Value of the year's unqualified
\* total row.
C1_RaceGenderSumsToTotal == Built => SumsToTotal(Text.RaceGenderTag)

\* C2 as stated: for every year and every non-empty Complete tag T emitted
\* for the year ("race,gender", "race", "gender", "religion", "age"), the
\* Values of the year's rows tagged T add up to the Value of the year's
\* unqualified total row, also for the rows tagged "age" when some records
\* of the year have no resolvable birth date.
C2_EveryTagSumsToTotal ==
    Built => \A tag \in {Text.RaceGenderTag, Text.RaceTag, Text.GenderTag, Text.ReligionTag, Text.AgeTag} :
                 SumsToTotal(tag)

\* the AgeCategory values observed among the records received in year
ObservedAges(year) ==
    {classify_age(Age(to_datetime(aDecoded[i].DateReceived),
                      to_datetime(aDecoded[i].DateOfBirth))) :
        i \in {j \in 1..Len(aDecoded) :
                 /\ to_datetime(aDecoded[j].DateReceived).valid
                 /\ to_datetime(aDecoded[j].DateReceived).year = year}}

AgeRowsOf(year) == SelectSeq(RowsOf(year), LAMBDA r : r.Age # <<>>)

\* C3: within one year every age-category row carries Complete = "age" if
\* the AgeCategory values observed among the year's records contain both
\* "juvenile" and "adult", and Complete = "" otherwise; all age rows of one
\* year carry the same tag.
C3_AgeTagIffBothObserved ==
    Built =>
        \A year \in RowYears :
            \A i \in 1..Len(AgeRowsOf(year)) :
                AgeRowsOf(year)[i].Complete =
                    (IF Text.Juvenile \in ObservedAges(year) /\ Text.Adult \in ObservedAges(year)
                     THEN Text.AgeTag ELSE <<>>)

C3_Witness ==
    /\ aPc = "build_inst_county"
    /\ Len(AgeRowsOf(1952)) = 2
    /\ \A i \in 1..2 : AgeRowsOf(1952)[i].Complete = Text.AgeTag
    /\ Len(AgeRowsOf(1953)) = 1
    /\ AgeRowsOf(1953)[1].Age = Text.Adult
    /\ AgeRowsOf(1953)[1].Complete = <<>>

\* the records whose DateReceived resolves to a date (in year)
Resolved(r) == to_datetime(r.DateReceived).valid
ResolvedIn(year) ==
    SelectSeq(aDecoded, LAMBDA r : Resolved(r) /\ to_datetime(r.DateReceived).year = year)

\* the rows the script that ran writes for other records
RowsFor(decoded) ==
    CASE aPc = "build_histpun" -> build_histpun(decoded)
      [] aPc = "build_inst_county" -> build_inst_county(decoded)
      [] aPc = "build_histpun_debug" -> build_histpun_debug(decoded)

RECURSIVE SumOver(_, _)
SumOver(years, f) ==
    IF years = {} THEN 0
    ELSE LET y == CHOOSE y \in years : TRUE
         IN  f[y] + SumOver(years \ {y}, f)

DaysBetween(r) == to_datetime(r.DateReceived).ordinal - to_datetime(r.DateOfBirth).ordinal

\* floor(days / 365) < 18 exactly when days < 18 * 365, negative days included
CategoryOf(r) ==
    IF ~to_datetime(r.DateOfBirth).valid THEN <<>>
    ELSE IF DaysBetween(r) < 18 * 365 THEN Text.Juvenile ELSE Text.Adult

\* the rows of one breakdown other than the age breakdown
OtherBreakdowns ==
    {"race,gender", "race", "gender", "religion", "crime", "institution", "institution,county"}
InBreakdown(r, b) ==
    CASE b = "race,gender" -> r.Complete = Text.RaceGenderTag
      [] b = "race" -> r.Complete = Text.RaceTag
      [] b = "gender" -> r.Complete = Text.GenderTag
      [] b = "religion" -> r.Complete = Text.ReligionTag
      [] b = "crime" -> r.Crime # <<>>
      [] b = "institution" ->
            r.Institution # <<>> /\ ("County" \in DOMAIN r => r.County = <<>>)
      [] b = "institution,county" -> "County" \in DOMAIN r /\ r.County # <<>>
BreakdownRows(year, b) == SelectSeq(RowsOf(year), LAMBDA r : InBreakdown(r, b))

\* C14: a record with both dates has Age = floor(days between / 365) and is
\* counted as "juvenile" exactly when that Age is below 18 (a negative Age
\* included) and as "adult" otherwise; a record with no resolvable birth
\* date is in no age row, and is still counted in the year's unqualified
\* total and in every other breakdown the script writes.
C14_AgeCategoryByDays ==
    Built =>
        \A year \in RowYears :
            /\ \A i \in 1..Len(AgeRowsOf(year)) :
                  AgeRowsOf(year)[i].Age \in {Text.Juvenile, Text.Adult}
            /\ \A cat \in {Text.Juvenile, Text.Adult} :
                  SumOfValues(SelectSeq(RowsOf(year), LAMBDA r : r.Age = cat))
                      = Len(SelectSeq(ResolvedIn(year), LAMBDA r : CategoryOf(r) = cat))
            /\ TotalOf(year) = Len(ResolvedIn(year))
            /\ \A b \in OtherBreakdowns :
                  BreakdownRows(year, b) # <<>>
                      => SumOfValues(BreakdownRows(year, b)) = Len(ResolvedIn(year))

C14_Witness ==
    /\ aPc = "build_inst_county"
    /\ Len(aDecoded) = 3
    /\ aDecoded[1].DateOfBirth = NaN
    /\ aDecoded[2].DateOfBirth = Sample.Born6573DaysBefore
    /\ aDecoded[3].DateOfBirth = Sample.Received1953
    /\ TotalOf(1952) = 3
    /\ Len(AgeRowsOf(1952)) = 2
    /\ \A i \in 1..2 : AgeRowsOf(1952)[i].Value = 1
    /\ \A b \in OtherBreakdowns \ {"crime"} : SumOfValues(BreakdownRows(1952, b)) = 3

\* C15 as stated: no breakdown row is written for an empty category value,
\* whatever the decoded input (labels that are empty or whitespace-only
\* included): every race x gender row has a non-empty Race and a non-empty
\* Gender, every race row a non-empty Race, every gender row a non-empty
\* Gender, and no row besides the year's total row has every category field
\* empty.
C15_NoRowForEmptyCategory ==
    Built =>
        \A year \in RowYears :
            /\ \A i \in 1..Len(RowsOf(year)) :
                  LET r == RowsOf(year)[i]
                  IN  /\ r.Complete = Text.RaceGenderTag => r.Race # <<>> /\ r.Gender # <<>>
                      /\ r.Complete = Text.RaceTag => r.Race # <<>>
                      /\ r.Complete = Text.GenderTag => r.Gender # <<>>
            /\ Len(SelectSeq(RowsOf(year), Unqualified)) = 1

\* the category fields a row fills in
Filled(r) ==
    {f \in {"Race", "Gender", "Age", "Crime", "Institution", "County"} \cap DOMAIN r :
        r[f] # <<>>}

\* the distinct values of the columns among the year's records, as groupby
\* sees them: a record with a missing value in one of the columns is left out
KeysOf(year, cols) ==
    {[c \in cols |-> ResolvedIn(year)[i][c]] :
        i \in {j \in 1..Len(ResolvedIn(year)) :
                  \A c \in cols : ~IsNa(ResolvedIn(year)[j][c])}}

\* C16: the Complete tag of a row is fixed by its breakdown, whatever the
\* data: the rows that fill in Race and Gender (one per race x gender pair)
\* carry "race,gender", the rows that fill in Race alone "race", Gender
\* alone "gender"; the religion rows (one per religion, no category field
\* filled in) carry "religion"; the rows that fill in Crime, Institution, or
\* Institution and County carry the empty tag.
C16_TagByBreakdown ==
    Built =>
        \A year \in RowYears :
            LET rows == RowsOf(year)
                Having(fields) == SelectSeq(rows, LAMBDA r : Filled(r) = fields)
                AllTagged(fields, tag) ==
                    \A i \in 1..Len(Having(fields)) : Having(fields)[i].Complete = tag
            IN  /\ AllTagged({"Race", "Gender"}, Text.RaceGenderTag)
                /\ Len(Having({"Race", "Gender"}))
                      = Cardinality(KeysOf(year, {"RaceName", "SexName"}))
                /\ AllTagged({"Race"}, Text.RaceTag)
                /\ AllTagged({"Gender"}, Text.GenderTag)
                /\ AllTagged({"Crime"}, <<>>)
                /\ AllTagged({"Institution"}, <<>>)
                /\ AllTagged({"Institution", "County"}, <<>>)
                /\ \A i \in 2..Len(Having({})) : Having({})[i].Complete = Text.ReligionTag
                /\ aPc # "build_histpun_debug" =>
                      /\ Len(Having({"Race"})) = Cardinality(KeysOf(year, {"RaceName"}))
                      /\ Len(Having({"Gender"})) = Cardinality(KeysOf(year, {"SexName"}))
                      /\ Len(Having({})) = 1 + Cardinality(KeysOf(year, {"ReligionName"}))

C16_Witness ==
    /\ aPc = "build_inst_county"
    /\ Len(aDecoded) = 3
    /\ \A i \in 1..3 : aDecoded[i].DateReceived = Sample.Received1952
    /\ aDecoded[1].RaceName = NaN
    /\ aDecoded[2].RaceName = Sample.White /\ aDecoded[2].SexName = Sample.Male
    /\ aDecoded[3].RaceName = Sample.Black
    /\ Len(Tagged(1952, Text.RaceGenderTag)) = 2
    /\ Len(Tagged(1952, Text.RaceTag)) = 2
    /\ Len(Tagged(1952, Text.GenderTag)) = 2
    /\ Len(Tagged(1952, Text.ReligionTag)) = 1
    /\ Len(SelectSeq(RowsOf(1952), LAMBDA r : Filled(r) = {"Institution", "County"})) = 1

\* "NYInmateRecords" followed by the four digits of the year
FourDigitSource(year) ==
    <<"N", "Y", "I", "n", "m", "a", "t", "e", "R", "e", "c", "o", "r", "d", "s">>
    \o <<DigitChar(year \div 1000), DigitChar((year \div 100) % 10),
         DigitChar((year \div 10) % 10), DigitChar(year % 10)>>

\* C17: every statistic row has Country "United States", State "New York",
\* Statistic "prisoners", an integer Year of four digits, Source
\* "NYInmateRecords" followed by that Year, and a positive integer Value.
C17_FixedFieldsAndSource ==
    Built =>
        \A i \in 1..Len(aRows) :
            /\ aRows[i].Country = <<"U", "n", "i", "t", "e", "d", " ", "S", "t", "a", "t", "e", "s">>
            /\ aRows[i].State = <<"N", "e", "w", " ", "Y", "o", "r", "k">>
            /\ aRows[i].Statistic = <<"p", "r", "i", "s", "o", "n", "e", "r", "s">>
            /\ aRows[i].Year \in 1000..9999
            /\ aRows[i].Source = FourDigitSource(aRows[i].Year)
            /\ aRows[i].Value \in Nat \ {0}

C17_Witness ==
    /\ aPc = "build_histpun"
    /\ Len(aDecoded) = 3
    /\ aDecoded[1].DateReceived = Sample.Received1953
    /\ aDecoded[2].DateReceived = Sample.Received1952
    /\ aDecoded[3].DateReceived = Sample.Received1952
    /\ aRows[1].Source = FourDigitSource(1952) /\ aRows[1].Value = 2
    /\ aRows[Len(aRows)].Source = FourDigitSource(1953) /\ aRows[Len(aRows)].Value = 1

\* the ways to reorder n records
Reorderings(n) == {p \in [1..n -> 1..n] : \A i, j \in 1..n : p[i] = p[j] => i = j}

\* C23: the rows a script writes are those of the union of the records of
\* all decoded files, and do not depend on the order of the files or of
\* the records: every reordering of the concatenated records gives the
\* same sequence of rows, the rows come by ascending year, and the total
\* row of a year counts every record of that year wherever it stands.
C23_OrderIndependent ==
    Built =>
        /\ \A p \in Reorderings(Len(aDecoded)) :
              RowsFor([i \in 1..Len(aDecoded) |-> aDecoded[p[i]]]) = aRows
        /\ \A i, j \in 1..Len(aRows) : i < j => aRows[i].Year <= aRows[j].Year
        /\ \A year \in RowYears : TotalOf(year) = Len(ResolvedIn(year))

C23_Witness ==
    /\ aPc = "build_histpun"
    /\ Len(aDecoded) = 3
    /\ aDecoded[1].DateReceived = Sample.Received1953
    /\ aDecoded[2].DateReceived = Sample.Received1952
    /\ aDecoded[3].DateReceived = Sample.Received1953
    /\ aDecoded[1].RaceName = Sample.White
    /\ aDecoded[3].RaceName = Sample.Black
    /\ aRows[1].Year = 1952
    /\ aRows[Len(aRows)].Year = 1953
    /\ TotalOf(1953) = 2

\* C25 as stated: among the rows of a year the unqualified total row is
\* the only one whose breakdown fields (Race, Gender, Age, Crime,
\* Institution, and County where the script writes it) are all empty;
\* every other row fills in at least one of them.
C25_OnlyTotalHasNoBreakdown ==
    Built =>
        \A year \in RowYears :
            Len(SelectSeq(RowsOf(year), LAMBDA r : Filled(r) = {})) = 1

---------------------------------------------------------------------------
(* One record through the two parsing stages: claims                       *)

Extracted == rPc \in {"raw", "written", "failed", "decoded", "aborted"}
Decoded == rPc = "decoded"

\* the text of a field of the line as the formatter's date steps see it
RawField(name) == clean_marker(rRaw[name])

DigitsOfLength(s, n) == Len(s) = n /\ AllDigits(s)

\* "YYYY-MM-DD" / "YYYY-MM"
ResolvedDay(x) ==
    /\ IsStr(x) /\ Len(x) = 10 /\ x[5] = "-" /\ x[8] = "-"
    /\ AllDigits(Slice(x, 0, 4)) /\ AllDigits(Slice(x, 5, 7)) /\ AllDigits(Slice(x, 8, 10))
ResolvedMonth(x) ==
    /\ IsStr(x) /\ Len(x) = 7 /\ x[5] = "-"
    /\ AllDigits(Slice(x, 0, 4)) /\ AllDigits(Slice(x, 5, 7))

C18_TotalPositionalExtraction ==
    IF rPc \in {"off", "line"} THEN TRUE
    ELSE IF rPc = "skipped" THEN FALSE
    ELSE /\ DOMAIN rRaw = {colnames[i] : i \in 1..Len(colnames)}
         /\ Cardinality(DOMAIN rRaw) = 40
         /\ \A i \in 1..Len(colspecs) :
               colspecs[i][1] >= Len(rLine) => rRaw[colnames[i]] = <<>>

\* the formatter has written the row of the record
Written == rPc \in {"written", "decoded", "aborted"}

\* C27: in the row the formatter writes, a non-empty DateReceived is a
\* date of the years 1900..1999; a non-empty DateOfBirth is a date of the
\* years 1800..1999 whose year is not after the year of the row's
\* DateReceived; and DateOfBirth is empty whenever DateReceived is empty.
C27_ResolvedYears ==
    Written =>
        LET received == rWritten["DateReceived"]
            born == rWritten["DateOfBirth"]
            YearOf(x) == DigitsValue(Slice(x, 0, 4))
        IN  /\ received # <<>> =>
                  ResolvedDay(received) /\ YearOf(received) \in 1900..1999
            /\ born # <<>> =>
                  /\ ResolvedDay(born) /\ YearOf(born) \in 1800..1999
                  /\ received # <<>>
                  /\ YearOf(born) <= YearOf(received)
            /\ received = <<>> => born = <<>>

C27_Witness ==
    /\ Written
    /\ rRaw["DateReceived"] = <<"6", "1", "2", "5", "2">>
    /\ rRaw["DateOfBirth"] = <<"6", "1", "2", "6", "0">>
    /\ rWritten["DateReceived"] = <<"1", "9", "5", "2", "-", "0", "6", "-", "1", "2">>
    /\ rWritten["DateOfBirth"] = <<"1", "8", "6", "0", "-", "0", "6", "-", "1", "2">>

---------------------------------------------------------------------------
(* One run of parse_decoded.py: claims                                     *)

Finished == uPc = "exit(0)"

\* C19: for every raw-formatted input file the decoded output has one row
\* per input record, in the order of the records (row j carries record j's
\* identifier number, check digit and reception date), and every row has the
\* same 33 fields in the same order, Institution first and
\* CurrentInstitutionName last, whatever the record holds.
C19_OneRowPerRecord ==
    Finished =>
        /\ Len(uOutputs) = Len(uInputs)
        /\ \A f \in 1..Len(uInputs) :
              LET columns == uOutputs[f].columns
                  rows == uOutputs[f].rows
              IN  /\ Len(columns) = 33
                  /\ Cardinality({columns[i] : i \in 1..33}) = 33
                  /\ columns[1] = "Institution"
                  /\ columns[33] = "CurrentInstitutionName"
                  /\ columns = uOutputs[1].columns
                  /\ Len(rows) = Len(uInputs[f])
                  /\ \A j \in 1..Len(rows) :
                        /\ DOMAIN rows[j] = {columns[i] : i \in 1..33}
                        /\ \A name \in {"IdentifierNumber", "CheckDigit", "DateReceived"} :
                              rows[j][name] =
                                  (IF uInputs[f][j][name] \in NaValues THEN <<>>
                                   ELSE uInputs[f][j][name])

C19_Witness ==
    /\ Finished
    /\ Len(uInputs) = 2
    /\ Len(uInputs[2]) = 2
    /\ uInputs[2][1]["IdentifierNumber"] = <<"n", "a", "n">>
    /\ uInputs[2][2]["IdentifierNumber"] = <<"6", "5", "4", "3", "2", "1">>
    /\ uOutputs[2].rows[1]["IdentifierNumber"] = <<>>
    /\ uOutputs[2].rows[2]["IdentifierNumber"] = <<"6", "5", "4", "3", "2", "1">>

\* C20: if any of the eight mapping files is missing or holds malformed
\* content, the run ends with a failure status before it creates the output
\* folder, reads an input file or writes a decoded file.
C20_FailsBeforeAnyOutput ==
    ((\E i \in 1..Len(uFiles) : uFiles[i] # "ok") /\ uPc \notin {"off", "start"})
        => /\ uPc = "exit(1)"
           /\ ~uFolder
           /\ uOutputs = <<>>

C20_Witness ==
    /\ Len(uFiles) = 8
    /\ uFiles[8] = "malformed"
    /\ \A i \in 1..7 : uFiles[i] = "ok"
    /\ Len(uInputs) = 2
    /\ uPc = "exit(1)"
    /\ ~uFolder
    /\ uOutputs = <<>>

\* C21 as stated, for the decode stage: when no file matches
\* csv_raw_formatted/*_rawformatted.csv the run ends in a reported fatal
\* failure (never with the success status) and produces no output.
C21_NoInputIsFatal ==
    (uInputs = <<>> /\ uPc \in {"exit(0)", "exit(1)"})
        => /\ uPc = "exit(1)"
           /\ ~uFolder
           /\ uOutputs = <<>>

\* C22 as stated, for the decode stage: a failure that originates in one
\* record never keeps the other records and files from being processed and
\* written, and only a failure to load a mapping file ends the run early:
\* with every mapping file loaded, the run ends successfully with one
\* decoded file per input file.
C22_FailureIsolation ==
    ((\A i \in 1..Len(uFiles) : uFiles[i] = "ok") /\ uPc \in {"exit(0)", "exit(1)"})
        => /\ uPc = "exit(0)"
           /\ Len(uOutputs) = Len(uInputs)

\* C24: when a raw-formatted file lacks a categorical source column, the
\* run still decodes and writes that file (and the files after it) and
\* ends successfully, every decoded row has all 33 columns, and the
\* decoded column of the absent source is empty in every row of the file.
C24_AbsentColumnIsEmpty ==
    ((\A i \in 1..Len(uFiles) : uFiles[i] = "ok") /\ uPc \in {"exit(0)", "exit(1)"})
        => /\ uPc = "exit(0)"
           /\ Len(uOutputs) = Len(uInputs)
           /\ \A f \in 1..Len(uInputs) :
                 /\ Len(uOutputs[f].rows) = Len(uInputs[f])
                 /\ \A j \in 1..Len(uInputs[f]) :
                       /\ DOMAIN uOutputs[f].rows[j]
                             = {decoded_columns[i] : i \in 1..Len(decoded_columns)}
                       /\ \A name \in DOMAIN categorical_source :
                             categorical_source[name] \notin DOMAIN uInputs[f][j]
                                 => uOutputs[f].rows[j][name] = <<>>
                       /\ "CrimeDetails" \notin DOMAIN uInputs[f][j]
                             => uOutputs[f].rows[j]["Crime"] = <<>>

C24_Witness ==
    /\ uPc = "exit(0)"
    /\ Len(uInputs) = 2
    /\ Len(uInputs[1]) = 2
    /\ "Race" \notin DOMAIN uInputs[1][2]
    /\ "Sex" \in DOMAIN uInputs[1][2]
    /\ uOutputs[1].rows[2]["RaceName"] = <<>>
    /\ uOutputs[1].rows[2]["SexName"] # <<>>
    /\ uOutputs[2].rows[1]["RaceName"] # <<>>

---------------------------------------------------------------------------
(* One run of run_all_parsers.py: claims                                   *)

\* C29: the scripts are started in the order raw formatting, decoding,
\* general aggregate, institution x court aggregate, institution x county
\* aggregate; a script is started only after every script before it ended
\* with status 0; and the run has ended with status 1, the error line
\* printed, exactly when the script started last failed, so that no script
\* is started after a failing one.
C29_StagesInOrder ==
    LET order == <<"parse_raw_formatter.py", "parse_decoded.py", "build_histpun.py",
                   "build_inst_court.py", "build_inst_county.py">>
        failed == oRan # <<>> /\ oRan[Len(oRan)].status # 0
    IN  oPc # "off" =>
            /\ Len(oRan) <= Len(order)
            /\ \A i \in 1..Len(oRan) : oRan[i].script = order[i]
            /\ \A i \in 1..(Len(oRan) - 1) : oRan[i].status = 0
            /\ failed <=> oPc = "exit(1)"
            /\ failed <=> Len(oOut) = 1 /\ oPc # "exit(0)"
            /\ oPc = "exit(0)" => Len(oRan) = Len(order)

\* C29 witness: the run ended with status 1 at the general aggregate, the
\* third script, after the first two succeeded.
C29_Witness ==
    /\ oPc = "exit(1)"
    /\ Len(oRan) = 3
    /\ oRan[1].status = 0
    /\ oRan[2].status = 0
    /\ oRan[3].script = "build_histpun.py"

\* the run is over the repository as it is, with at least one input text
\* file and every mapping file in order
ValidRepositoryRun ==
    /\ oScripts = Repository
    /\ oTxt > 0
    /\ oMappings = "ok"

\* C30: a run over the repository with valid inputs that has ended has
\* started all five scripts, build_inst_county.py among them, and has
\* printed that all steps completed successfully.
C30_AllStagesComplete ==
    (ValidRepositoryRun /\ oPc \in {"exit(0)", "exit(1)"})
        => /\ oPc = "exit(0)"
           /\ Len(oRan) = 5
           /\ \E i \in 1..Len(oRan) : oRan[i].script = "build_inst_county.py"
           /\ oOut = <<"All parsing and aggregation steps completed successfully.">>

=============================================================================
